---- MODULE Spec2Model ----
(***************************************************************************)
(* A model of the sgn graph execution engine: the Pipeline registry and    *)
(* dependency graph (sgn/apps.py), pads and elements (sgn/base.py), the    *)
(* reference elements FakeSrc, FakeTransform and FakeSink, and the frame   *)
(* scheduler Pipeline.__execute_graphs, stepped at the granularity of the  *)
(* asyncio event loop.                                                     *)
(***************************************************************************)
EXTENDS Integers, Sequences, FiniteSets, TLC

(***************************************************************************)
(* Bounds                                                                  *)
(***************************************************************************)
\* largest value of FakeSrc.num_frames that is tried
MaxNumFrames == 2
\* number of times Pipeline.run is called on one pipeline
MaxRuns == 2
\* FakeSrc.cnt and the cycle counter are tracked exactly up to this value;
\* beyond it only "at least MaxCnt" is kept, which leaves the EOS flag
\* cnt >= num_frames - 1 exact because MaxCnt > MaxNumFrames
MaxCnt == MaxNumFrames + 1

\* the passes of the wait loop of sub_process_shutdown that are counted
MaxSleeps == 3

(***************************************************************************)
(* The objects of the program.  An object is identified by a tuple, never  *)
(* by its name: UniqueID hashes and compares on the uuid (base.py 73-77).  *)
(***************************************************************************)
None == <<"None">>
NoFrame == 0

\* e1, e2: the two FakeSrc of tests/test_apps.py 34-35; e3: a further
\* FakeSrc; trans1: the FakeTransform of tests/test_graph.py 18-22; trans2: a
\* FakeTransform with two sink pads; snk1, snk2: FakeSinks as in
\* tests/test_graph.py 76-79 and 23-26; snk3: the MyBrokenSinkClass of
\* tests/test_subprocess_exception.py 32-36; snk4: a SubProcessSinkElement
\* as the MyLoggingSinkElement of subprocess.py 483-509; snk5: a subprocess
\* element whose worker is that of the MyTransformClass of
\* tests/test_subprocess.py 67-95
SourceElements == {<<"e1">>, <<"e2">>, <<"e3">>}
TransformElements == {<<"trans1">>, <<"trans2">>}
SinkElements == {<<"snk1">>, <<"snk2">>, <<"snk3">>, <<"snk4">>, <<"snk5">>}
Elements == SourceElements \cup TransformElements \cup SinkElements

\* the class of the sink elements, which decides what pull does
klass == [e \in SinkElements |->
           CASE e = <<"snk3">> -> "MyBrokenSinkClass"
             [] e = <<"snk4">> -> "MyLoggingSinkElement"
             [] e = <<"snk5">> -> "MyTransformClass"
             [] OTHER -> "FakeSink"]

\* the elements that run a worker process
SubProcessElements ==
    {e \in SinkElements : klass[e] \in {"MyLoggingSinkElement", "MyTransformClass"}}

\* UniqueID.name of the elements
name == [e \in Elements |->
           CASE e = <<"e1">> -> "src1"
             [] e = <<"e2">> -> "src2"
             [] e = <<"e3">> -> "src3"
             [] OTHER -> e[1]]

source_pad_names == [e \in Elements |->
           CASE e \in SourceElements -> <<"H1">>
             [] e \in TransformElements -> <<"H1">>
             [] OTHER -> <<>>]

sink_pad_names == [e \in Elements |->
           CASE e = <<"trans1">> -> <<"H1">>
             [] e = <<"trans2">> -> <<"H1", "L1">>
             [] e = <<"snk1">> -> <<"H1", "L1">>
             [] e = <<"snk2">> -> <<"H1">>
             [] e = <<"snk3">> -> <<"H1">>
             [] e = <<"snk4">> -> <<"H1">>
             [] e = <<"snk5">> -> <<"H1">>
             [] OTHER -> <<>>]

\* the elements one program builds its pipeline from
Programs == {
    {<<"e1">>, <<"e2">>, <<"snk1">>},
    {<<"e1">>, <<"trans1">>, <<"snk2">>},
    {<<"e1">>, <<"trans2">>, <<"snk2">>},
    {<<"e1">>, <<"e3">>, <<"snk1">>, <<"snk2">>},
    {<<"e1">>, <<"snk1">>, <<"snk3">>} }

\* the list comprehensions of the __post_init__ methods: one pad object per
\* pad name, in the order of the names
source_pads == [e \in Elements |->
           [i \in 1..Len(source_pad_names[e]) |-> <<e[1], "src", source_pad_names[e][i]>>]]

sink_pads == [e \in Elements |->
           [i \in 1..Len(sink_pad_names[e]) |-> <<e[1], "sink", sink_pad_names[e][i]>>]]

Range(s) == {s[i] : i \in DOMAIN s}

SourcePad == UNION {Range(source_pads[e]) : e \in Elements}
SinkPad == UNION {Range(sink_pads[e]) : e \in Elements}
Pad == SourcePad \cup SinkPad

\* PadLike.element, the back reference of a pad
element(p) == <<p[1]>>

\* ElementLike.pad_list
pad_list(e) == source_pads[e] \o sink_pads[e]

\* a pad name that leaves out the kind of the pad
FullName_NoKind(p) == name[element(p)] \o ":" \o p[3]

\* the pad name given at construction, "%s:src:%s" % (self.name, n) and
\* "%s:sink:%s" % (self.name, n)
FullName(p) == name[element(p)] \o ":" \o p[2] \o ":" \o p[3]

\* UniqueID.name of the pads.  The source pad of e2 is renamed to the name
\* of the source pad of e1 before the pipeline is built (test_apps.py 37).
pad_name == [p \in Pad |-> IF p = <<"e2", "src", "H1">> THEN FullName(<<"e1", "src", "H1">>)
                           ELSE FullName(p)]

PadName(p) == pad_name[p]

ObjName(o) == IF o \in Elements THEN name[o] ELSE PadName(o)

(***************************************************************************)
(* Python dicts as functions                                               *)
(***************************************************************************)
EmptyDict == <<>>

\* dict.update
Update(d, u) == [k \in DOMAIN d \cup DOMAIN u |-> IF k \in DOMAIN u THEN u[k] ELSE d[k]]

\* a TransformElement whose source pads are given no dependencies
ElementGraph_NoDependencies(e) ==
    IF e \in SinkElements THEN EmptyDict ELSE [s \in Range(source_pads[e]) |-> {}]

\* ElementLike.graph after __post_init__
ElementGraph(e) ==
    CASE e \in SourceElements -> [s \in Range(source_pads[e]) |-> {}]
      [] e \in TransformElements -> [s \in Range(source_pads[e]) |-> Range(sink_pads[e])]
      [] OTHER -> EmptyDict

(***************************************************************************)
(* graphlib.TopologicalSorter, as Pipeline.__execute_graphs uses it.  The  *)
(* sorter is the record [npredecessors, ready_nodes, passedout, finished]; *)
(* the successors of a node are read off the graph it was built from,      *)
(* which does not change while a run is in progress.                       *)
(***************************************************************************)
Nodes(g) == DOMAIN g \cup UNION {g[k] : k \in DOMAIN g}

Predecessors(g, n) == IF n \in DOMAIN g THEN g[n] ELSE {}

Successors(g, n) == {k \in DOMAIN g : n \in g[k]}

\* the nodes reachable from the set S along predecessor edges
RECURSIVE Closure(_, _)
Closure(g, S) ==
    LET T == S \cup UNION {Predecessors(g, n) : n \in S}
    IN IF T = S THEN S ELSE Closure(g, T)

\* a sorter that finds no cycle
find_cycle_Never(g) == FALSE

\* TopologicalSorter._find_cycle, as a truth value
find_cycle(g) == \E n \in Nodes(g) : n \in Closure(g, Predecessors(g, n))

NoSorter == [npredecessors |-> EmptyDict, ready_nodes |-> {}, passedout |-> {}, finished |-> {}]

\* TopologicalSorter(graph) followed by the first half of prepare()
TopologicalSorter(g) ==
    [npredecessors |-> [n \in Nodes(g) |-> Cardinality(Predecessors(g, n))],
     ready_nodes |-> {n \in Nodes(g) : Predecessors(g, n) = {}},
     passedout |-> {},
     finished |-> {}]

is_active(t) == t.finished # t.passedout \/ t.ready_nodes # {}

\* a get_ready that hands the ready nodes out without taking them off
get_ready_NotCleared(t) == [t EXCEPT !.passedout = t.passedout \cup t.ready_nodes]

\* the sorter after get_ready(); the call returns t.ready_nodes
get_ready(t) == [t EXCEPT !.ready_nodes = {}, !.passedout = t.passedout \cup t.ready_nodes]

\* a done that does not mark the node
done_Unmarked(g, t, n) == t

\* the sorter after done(n)
done(g, t, n) ==
    LET np == [m \in DOMAIN t.npredecessors |->
                 IF m \in Successors(g, n) THEN t.npredecessors[m] - 1
                 ELSE t.npredecessors[m]]
    IN [npredecessors |-> np,
        ready_nodes |-> t.ready_nodes \cup {m \in Successors(g, n) : np[m] = 0},
        passedout |-> t.passedout,
        finished |-> t.finished \cup {n}]

VARIABLES
    num_frames,   \* FakeSrc.num_frames of each source element
    _registry,    \* Pipeline._registry: name -> element or pad
    graph,        \* Pipeline.graph: pad -> set of the pads it depends on
    sinks,        \* Pipeline.sinks: name -> SinkElement
    other,        \* SinkPad.other
    exc,          \* the exception the last call of the Pipeline API raised
    output,       \* SourcePad.output, a reference to a Frame
    input,        \* SinkPad.input, a reference to a Frame
    frames,       \* the Frame objects that are referenced, by identity
    cnt,          \* FakeSrc.cnt
    inbuf,        \* FakeTransform.inbuf
    _at_eos,      \* SinkElement._at_eos
    pc,           \* where Pipeline.run is
    runs,         \* number of calls of Pipeline.run so far
    cycles,       \* frame cycles started by the current call of run
    ts,           \* the TopologicalSorter of the current frame cycle
    ready,        \* what is left of the tuple the for loop iterates over
    node,         \* the loop variable node
    task,         \* the asyncio task of node()
    done_nodes,   \* the Queue done_nodes
    ncalls,       \* per pad, the calls of its element callback in this cycle
    shm,          \* the names of the shared-memory regions that exist
    shm_list,     \* SubProcess.shm_list, by the names of its entries
    instance_list,\* SubProcess.instance_list
    ctx,          \* where the with statement of the SubProcess context is
    spc,          \* where SubProcess.run is
    idx,          \* the position of a loop over instance_list
    sexc,         \* the exception the last call of the SubProcess API raised
    sd,           \* the call of sub_process_shutdown in progress
    in_queue,     \* the items of in_queue, per subprocess element
    out_queue,    \* the items of out_queue, per subprocess element
    released,     \* whether the host has set self.in_queue = self.out_queue = None
    process_stop, \* the Event process_stop, per subprocess element
    process_shutdown, \* the Event process_shutdown
    terminated,   \* the Event terminated
    process,      \* the state of the Process object and its OS process
    wpc,          \* where the worker is in _sub_process_wrapper
    tries         \* the local variable tries of _sub_process_wrapper

pipeline_vars == <<_registry, graph, sinks, other>>
element_vars == <<num_frames>>
pad_vars == <<output, input, frames, cnt, inbuf, _at_eos, ncalls>>
loop_vars == <<ts, ready, node, task, done_nodes>>
super_vars == <<shm, shm_list, instance_list, ctx, spc, idx, sexc, sd, released>>
event_vars == <<process_stop, process_shutdown, terminated>>
worker_vars == <<process, wpc, tries>>
queue_vars == <<in_queue, out_queue>>
sub_vars == <<super_vars, event_vars, worker_vars, queue_vars>>
vars == <<element_vars, pipeline_vars, exc, pad_vars, pc, runs, cycles, loop_vars, sub_vars>>

(***************************************************************************)
(* Pipeline.insert and Pipeline.link                                       *)
(***************************************************************************)
\* isinstance(element, ElementLike)
IsElement(o) == o \in Elements

\* "name not in self._registry" negated: the name is already in use
InUse(reg, n) == n \in DOMAIN reg

\* a loop over the pads that registers every pad without looking its name up
InsertPads_Unchecked(reg, pads) ==
    [_registry |-> Update(reg, [n \in {pad_name[q] : q \in Range(pads)} |->
                                  CHOOSE q \in Range(pads) : pad_name[q] = n]),
     exc |-> "None"]

\* the loop over element.pad_list of Pipeline.insert; it stops at the first
\* pad whose name is in use and keeps the pads registered before it
RECURSIVE InsertPads(_, _)
InsertPads(reg, pads) ==
    IF pads = <<>> THEN [_registry |-> reg, exc |-> "None"]
    ELSE LET pad == Head(pads) IN
         IF InUse(reg, PadName(pad))
         THEN [_registry |-> reg, exc |-> "AssertionError"]
         ELSE InsertPads(Update(reg, [n \in {PadName(pad)} |-> pad]), Tail(pads))

\* the loop over elements of Pipeline.insert, on pl = [_registry, graph, sinks, exc]
RECURSIVE InsertLoop(_, _)
InsertLoop(pl, elements) ==
    IF elements = <<>> THEN pl
    ELSE LET elem == Head(elements) IN
         IF ~IsElement(elem) THEN [pl EXCEPT !.exc = "AssertionError"]
         ELSE IF InUse(pl._registry, name[elem]) THEN [pl EXCEPT !.exc = "AssertionError"]
         ELSE LET r == InsertPads(Update(pl._registry, [n \in {name[elem]} |-> elem]),
                                  pad_list(elem))
              IN IF r.exc # "None"
                 THEN [pl EXCEPT !._registry = r._registry, !.exc = r.exc]
                 ELSE InsertLoop(
                        [_registry |-> r._registry,
                         graph |-> Update(pl.graph, ElementGraph(elem)),
                         sinks |-> IF elem \in SinkElements
                                   THEN Update(pl.sinks, [n \in {name[elem]} |-> elem])
                                   ELSE pl.sinks,
                         exc |-> "None"],
                        Tail(elements))

\* a link that records no dependency of the sink pad on the source pad
SinkPad_link_NoDependency(self, src) == [p \in {self} |-> {}]

\* the value SinkPad.link returns: {self: set((other,))}
SinkPad_link(self, src) == [p \in {self} |-> {src}]

\* a loop over link_map.items() without the two isinstance asserts
RECURSIVE LinkLoop_Unchecked(_, _, _)
LinkLoop_Unchecked(reg, lk, link_map) ==
    IF link_map = <<>> THEN lk
    ELSE IF ~InUse(reg, Head(link_map)[1]) \/ ~InUse(reg, Head(link_map)[2])
    THEN [lk EXCEPT !.exc = "KeyError"]
    ELSE LinkLoop_Unchecked(reg,
           [graph |-> Update(lk.graph,
                             SinkPad_link(reg[Head(link_map)[1]], reg[Head(link_map)[2]])),
            other |-> [p \in SinkPad |-> IF p = reg[Head(link_map)[1]]
                                         THEN reg[Head(link_map)[2]] ELSE lk.other[p]],
            exc |-> "None"],
           Tail(link_map))

\* a loop over link_map.items() that adds the new source pad to the
\* dependencies the sink pad already has in the graph
RECURSIVE LinkLoop_Accumulate(_, _, _)
LinkLoop_Accumulate(reg, lk, link_map) ==
    IF link_map = <<>> THEN lk
    ELSE IF ~InUse(reg, Head(link_map)[1]) \/ ~InUse(reg, Head(link_map)[2])
    THEN [lk EXCEPT !.exc = "KeyError"]
    ELSE IF reg[Head(link_map)[1]] \notin SinkPad \/ reg[Head(link_map)[2]] \notin SourcePad
    THEN [lk EXCEPT !.exc = "AssertionError"]
    ELSE LinkLoop_Accumulate(reg,
           [graph |-> Update(lk.graph,
                             [p \in {reg[Head(link_map)[1]]} |->
                                 {reg[Head(link_map)[2]]}
                                 \cup (IF p \in DOMAIN lk.graph THEN lk.graph[p] ELSE {})]),
            other |-> [lk.other EXCEPT ![reg[Head(link_map)[1]]] = reg[Head(link_map)[2]]],
            exc |-> "None"],
           Tail(link_map))

\* the loop over link_map.items() of Pipeline.link, on
\* lk = [graph, other, exc]; link_map is the sequence of the dict's items
RECURSIVE LinkLoop(_, _, _)
LinkLoop(reg, lk, link_map) ==
    IF link_map = <<>> THEN lk
    ELSE LET sink_pad_name == Head(link_map)[1]
             source_pad_name == Head(link_map)[2]
         IN IF ~InUse(reg, sink_pad_name) \/ ~InUse(reg, source_pad_name)
            THEN [lk EXCEPT !.exc = "KeyError"]
            ELSE LET sink_pad == reg[sink_pad_name]
                     source_pad == reg[source_pad_name]
                 IN IF sink_pad \notin SinkPad \/ source_pad \notin SourcePad
                    THEN [lk EXCEPT !.exc = "AssertionError"]
                    ELSE LinkLoop(reg,
                           [graph |-> Update(lk.graph, SinkPad_link(sink_pad, source_pad)),
                            other |-> [lk.other EXCEPT ![sink_pad] = source_pad],
                            exc |-> "None"],
                           Tail(link_map))

\* the elements whose name the registry holds
Registered(reg) == {e \in Elements : name[e] \in DOMAIN reg /\ reg[name[e]] = e}

\* the arguments the calls are tried with: every sink pad name and one
\* source pad name as the sink of a link, every source pad name and one sink
\* pad name as its source; a name is unknown until its element is inserted
SinkNameArgs == {PadName(p) : p \in SinkPad} \cup {PadName(<<"e1", "src", "H1">>)}
SourceNameArgs == {PadName(p) : p \in SourcePad} \cup {PadName(<<"trans1", "sink", "H1">>)}
LinkMaps == {<<en>> : en \in SinkNameArgs \X SourceNameArgs}
InsertArgs == Elements \cup {None}
InsertCalls ==
    {[elements |-> <<a>>, link_map_given |-> FALSE, link_map |-> <<>>] : a \in InsertArgs}
    \cup {[elements |-> <<a, b>>, link_map_given |-> FALSE, link_map |-> <<>>] :
             a \in Elements, b \in InsertArgs}
    \cup UNION {{[elements |-> <<element(p)>>, link_map_given |-> TRUE,
                  link_map |-> <<<<PadName(p), PadName(q)>>>>] : q \in SourcePad} :
                p \in SinkPad}

(***************************************************************************)
(* Frames, pads and the element callbacks                                  *)
(***************************************************************************)
Values(f) == {f[x] : x \in DOMAIN f}

\* the Frame objects something still refers to
Referenced(out, inp, ib) ==
    (Values(out) \cup Values(inp) \cup UNION {{kv[2] : kv \in Range(ib[e])} : e \in DOMAIN ib})
      \ {NoFrame}

\* the identity of a newly allocated object: one no live object has
NewFrameId(refs) ==
    CHOOSE i \in 1..(Cardinality(refs) + 1) : i \notin refs /\ \A j \in 1..(i - 1) : j \in refs

\* "%d" % n
Str(n) == <<"0", "1", "2", "3", "4", "5", "6", "7", "8", "9">>[n + 1]

\* Frame(EOS=..., metadata={"name": ...}) after Frame.__post_init__
Frame(eos, nm) == [EOS |-> eos, name |-> nm, __graph__ |-> ""]

\* a pad that leaves metadata["__graph__"] as it is
GraphAppend_Nothing(fr, p) == fr

\* metadata["__graph__"] += "-> %s " % self.name
GraphAppend(fr, p) == [fr EXCEPT !.__graph__ = fr.__graph__ \o "-> " \o PadName(p) \o " "]

\* self.cnt[pad] += 1
Increment(c) == IF c < MaxCnt THEN c + 1 ELSE c

\* a FakeSrc that sets EOS one frame late
FakeSrc_new_OneLate(pad, c, nf) == Frame(c >= nf, PadName(pad) \o "[" \o Str(c) \o "]")

\* FakeSrc.new: the Frame it returns, given the incremented counter
FakeSrc_new(pad, c, nf) == Frame(c >= nf - 1, PadName(pad) \o "[" \o Str(c) \o "]")

\* "+".join(b.metadata["name"] for b in self.inbuf.values())
RECURSIVE JoinNames(_, _)
JoinNames(fr, ib) ==
    IF ib = <<>> THEN ""
    ELSE IF Len(ib) = 1 THEN fr[ib[1][2]].name
    ELSE fr[ib[1][2]].name \o "+" \o JoinNames(fr, Tail(ib))

\* FakeTransform.transform_buffer: EOS is set if any input is at EOS; the
\* name is formatted "%s -> %s", as tests/test_transforms.py 30 and
\* tests/test_graph.py 38-40 expect it
FakeTransform_transform(pad, fr, ib) ==
    Frame(\E k \in DOMAIN ib : fr[ib[k][2]].EOS,
          JoinNames(fr, ib) \o " -> " \o PadName(pad))

\* FakeTransform.get_buffer: self.inbuf[pad] = buf, on a dict kept as the
\* sequence of its items
SetItem(ib, pad, ref) ==
    IF \E k \in DOMAIN ib : ib[k][1] = pad
    THEN [k \in DOMAIN ib |-> IF ib[k][1] = pad THEN <<pad, ref>> ELSE ib[k]]
    ELSE Append(ib, <<pad, ref>>)

\* a mark_eos that flips the flag of the pad
mark_eos_Toggle(at, pad) == [at EXCEPT ![pad] = ~at[pad]]

\* SinkElement.mark_eos
mark_eos(at, pad) == [at EXCEPT ![pad] = TRUE]

\* SinkElement.at_eos
at_eos(at, e) == \E pad \in Range(sink_pads[e]) : at[pad]

\* a loop condition that one sink element at EOS makes false
AllAtEOS_Any == \E n \in DOMAIN sinks : at_eos(_at_eos, sinks[n])

\* a loop condition that is true when the pipeline has no sink element
AllAtEOS_Some == DOMAIN sinks # {} /\ \A n \in DOMAIN sinks : at_eos(_at_eos, sinks[n])

\* all(sink.at_eos for sink in self.sinks.values())
AllAtEOS == \A n \in DOMAIN sinks : at_eos(_at_eos, sinks[n])

\* the state of the pads as one record, with the exception a call raised
PadState == [output |-> output, input |-> input, frames |-> frames, cnt |-> cnt,
             inbuf |-> inbuf, _at_eos |-> _at_eos, ncalls |-> ncalls, in_queue |-> in_queue,
             exception |-> "None"]

Collect(ps) ==
    [ps EXCEPT !.frames = [i \in Referenced(ps.output, ps.input, ps.inbuf) |-> ps.frames[i]]]

\* an invocation in which the callback of every pad executes
Called_Every(ps, pad) == [ps EXCEPT !.ncalls = [p \in Pad |-> ps.ncalls[p] + 1]]

\* the callback of the pad has been invoked once more
Called(ps, pad) == [ps EXCEPT !.ncalls[pad] = ps.ncalls[pad] + 1]

\* SourcePad.__call__
SourcePad_call(ps, pad) ==
    LET e == element(pad)
        c == Increment(ps.cnt[pad])
        fr == IF e \in SourceElements THEN FakeSrc_new(pad, c, num_frames[e])
              ELSE FakeTransform_transform(pad, ps.frames, ps.inbuf[e])
        id == NewFrameId(Referenced(ps.output, ps.input, ps.inbuf))
    IN Collect([Called(ps, pad) EXCEPT
                  !.cnt = IF e \in SourceElements THEN [ps.cnt EXCEPT ![pad] = c] ELSE ps.cnt,
                  !.output = [ps.output EXCEPT ![pad] = id],
                  !.frames = Update(ps.frames, [i \in {id} |-> GraphAppend(fr, pad)])])

\* a sink pad that stores a copy of the Frame, a new object
InputRef_Copy(refs, ref) == NewFrameId(refs)

\* self.input = self.other.output: the reference the sink pad stores
InputRef(refs, ref) == ref

\* Queue(maxsize=self.queue_maxsize), for the elements of the model
queue_maxsize == 1

\* Queue(maxsize=...) of the queues the caller of the worker wrapper prepares
maxsize == 2

\* the maxsize of the queues of an element: snk5 stands for the events and
\* queues the caller of the wrapper prepares
Capacity(e) == IF e = <<"snk5">> THEN maxsize ELSE queue_maxsize

\* Queue.put on a queue with room; a full queue blocks the caller
put(q, item) == Append(q, item)

\* whether Queue.put blocks
Full_Never(q) == FALSE
Full(q) == Len(q) >= queue_maxsize

\* MyLoggingSinkElement.pull: mark_eos on an EOS frame, then
\* self.in_queue.put((pad.name, frame)), which pickles the frame; put is
\* called on None once sub_process_shutdown has released the queues
MyLoggingSinkElement_pull(ps, pad, ref) ==
    LET e == element(pad)
        ps1 == IF ps.frames[ref].EOS
               THEN [ps EXCEPT !._at_eos = mark_eos(ps._at_eos, pad)]
               ELSE ps
    IN IF released[e] THEN [ps1 EXCEPT !.exception = "AttributeError"]
       ELSE [ps1 EXCEPT !.in_queue[e] = put(ps.in_queue[e], <<PadName(pad), ps.frames[ref]>>)]

\* whether the call of the pad blocks in in_queue.put
PutBlocks(pad) ==
    /\ pad \in SinkPad
    /\ element(pad) \in SubProcessElements
    /\ other[pad] \in SourcePad
    /\ output[other[pad]] # NoFrame
    /\ ~released[element(pad)]
    /\ Full(in_queue[element(pad)])

\* the element callback of a sink pad: FakeSink.pull, MyBrokenSinkClass.pull,
\* MyLoggingSinkElement.pull or FakeTransform.get_buffer
Pull(ps, pad, ref) ==
    LET e == element(pad) IN
    IF e \in TransformElements
    THEN [ps EXCEPT !.inbuf[e] = SetItem(ps.inbuf[e], pad, ref)]
    ELSE IF klass[e] = "MyBrokenSinkClass"
    THEN [ps EXCEPT !.exception = "ValueError"]
    ELSE IF klass[e] = "MyLoggingSinkElement"
    THEN MyLoggingSinkElement_pull(ps, pad, ref)
    ELSE IF ps.frames[ref].EOS
    THEN [ps EXCEPT !._at_eos = mark_eos(ps._at_eos, pad)]
    ELSE ps

\* SinkPad.__call__
SinkPad_call(ps, pad) ==
    IF other[pad] \notin SourcePad THEN [ps EXCEPT !.exception = "AssertionError"]
    ELSE LET src == ps.output[other[pad]]
             ref == InputRef(Referenced(ps.output, ps.input, ps.inbuf), src)
         IN IF src = NoFrame
            THEN [ps EXCEPT !.input[pad] = NoFrame, !.exception = "AssertionError"]
            ELSE Collect(Pull(
                   [Called(ps, pad) EXCEPT
                      !.input = [ps.input EXCEPT ![pad] = ref],
                      !.frames = Update(ps.frames,
                                        [i \in {ref} |-> GraphAppend(ps.frames[src], pad)])],
                   pad, ref))

\* node()
PadCall(ps, pad) == IF pad \in SourcePad THEN SourcePad_call(ps, pad) ELSE SinkPad_call(ps, pad)

NoTask == [state |-> "none", exception |-> "None"]

\* no call of sub_process_shutdown is in progress
NoShutdown == [element |-> None, timeout |-> 0, sleeps |-> 0, state |-> "none", out |-> <<>>]

\* an await that swallows the exception of the task
AwaitRaises_Never(t) == FALSE

\* whether "await task" raises, and so ends __execute_graphs and run
AwaitRaises(t) == t.exception # "None"

\* the names the program gives to SubProcess.to_shm
ShmNames == {"shared_data", "other_data"}

\* num_empty = 3 in _sub_process_wrapper
num_empty == 3

\* the class attributes of SubProcess and the subprocess elements before
\* any of them is constructed
SubProcessInit ==
    /\ shm = {}
    /\ shm_list = <<>>
    /\ instance_list = <<>>
    /\ ctx = "outside"
    /\ spc = "idle"
    /\ idx = 0
    /\ sexc = "None"
    /\ sd = NoShutdown
    /\ in_queue = [e \in SubProcessElements |-> <<>>]
    /\ out_queue = [e \in SubProcessElements |-> <<>>]
    /\ released = [e \in SubProcessElements |-> FALSE]
    /\ process_stop = [e \in SubProcessElements |-> FALSE]
    /\ process_shutdown = [e \in SubProcessElements |-> FALSE]
    /\ terminated = [e \in SubProcessElements |-> FALSE]
    /\ process = [e \in SubProcessElements |-> "none"]
    /\ wpc = [e \in SubProcessElements |-> "while"]
    /\ tries = [e \in SubProcessElements |-> 0]

TypeOK ==
    /\ num_frames \in [SourceElements -> 0..MaxNumFrames]
    /\ DOMAIN _registry \subseteq {ObjName(o) : o \in Elements \cup Pad}
    /\ \A n \in DOMAIN _registry : _registry[n] \in Elements \cup Pad
    /\ DOMAIN graph \subseteq Pad
    /\ \A p \in DOMAIN graph : graph[p] \subseteq Pad
    /\ \A n \in DOMAIN sinks : sinks[n] \in SinkElements
    /\ other \in [SinkPad -> SourcePad \cup {None}]
    /\ exc \in {"None", "AssertionError", "KeyError", "CycleError", "ValueError",
                "AttributeError"}
    /\ output \in [SourcePad -> Nat]
    /\ input \in [SinkPad -> Nat]
    /\ DOMAIN frames = Referenced(output, input, inbuf)
    /\ \A i \in DOMAIN frames : frames[i].EOS \in BOOLEAN
    /\ cnt \in [SourcePad -> -1..MaxCnt]
    /\ DOMAIN inbuf = TransformElements
    /\ _at_eos \in [UNION {Range(sink_pads[e]) : e \in SinkElements} -> BOOLEAN]
    /\ pc \in {"idle", "while", "is_active", "for", "await", "callback", "wakeup", "get",
               "returned", "raised"}
    /\ runs \in 0..MaxRuns
    /\ cycles \in 0..MaxCnt
    /\ ready \subseteq Pad
    /\ node \in Pad \cup {None}
    /\ task.state \in {"none", "pending", "done"}
    /\ \A i \in DOMAIN done_nodes : done_nodes[i] \in Pad
    /\ ncalls \in [Pad -> Nat]
    /\ shm \subseteq ShmNames
    /\ \A i \in DOMAIN shm_list : shm_list[i] \in ShmNames
    /\ \A i \in DOMAIN instance_list : instance_list[i] \in SubProcessElements
    /\ ctx \in {"outside", "body", "exit", "exited", "raised"}
    /\ spc \in {"idle", "try", "join", "returned", "raised"}
    /\ idx \in 0..Cardinality(SubProcessElements) + 1
    /\ sexc \in {"None", "FileExistsError", "RuntimeError", "AssertionError"}
    /\ sd.state \in {"none", "waiting"}
    /\ sd.sleeps \in 0..MaxSleeps
    /\ \A e \in SubProcessElements :
          /\ Len(in_queue[e]) \in 0..Capacity(e)
          /\ Len(out_queue[e]) \in 0..Capacity(e)
          /\ released[e] \in BOOLEAN
          /\ process_stop[e] \in BOOLEAN
          /\ process_shutdown[e] \in BOOLEAN
          /\ terminated[e] \in BOOLEAN
          /\ process[e] \in {"none", "initial", "started", "killed", "stopped"}
          /\ wpc[e] \in {"while", "drain", "wait_stop", "end", "interrupted"}
          /\ tries[e] \in 0..num_empty + 1

Init ==
    /\ num_frames \in {[e \in SourceElements |-> IF e = <<"e3">> THEN 1 ELSE n] :
                         n \in 0..MaxNumFrames}
    /\ _registry = EmptyDict
    /\ graph = EmptyDict
    /\ sinks = EmptyDict
    /\ other = [p \in SinkPad |-> None]
    /\ exc = "None"
    /\ output = [p \in SourcePad |-> NoFrame]
    /\ input = [p \in SinkPad |-> NoFrame]
    /\ frames = EmptyDict
    /\ cnt = [p \in SourcePad |-> -1]
    /\ inbuf = [e \in TransformElements |-> <<>>]
    /\ _at_eos = [p \in UNION {Range(sink_pads[e]) : e \in SinkElements} |-> FALSE]
    /\ pc = "idle"
    /\ runs = 0
    /\ cycles = 0
    /\ ts = NoSorter
    /\ ready = {}
    /\ node = None
    /\ task = NoTask
    /\ done_nodes = <<>>
    /\ ncalls = [p \in Pad |-> 0]
    /\ SubProcessInit

\* Pipeline.insert(*elements, link_map=...), while the pipeline is assembled
Insert(call) ==
    /\ pc = "idle"
    /\ \E r \in {InsertLoop([_registry |-> _registry, graph |-> graph, sinks |-> sinks,
                             exc |-> "None"], call.elements)} :
       \E l \in {IF r.exc = "None" /\ call.link_map_given
                 THEN LinkLoop(r._registry,
                               [graph |-> r.graph, other |-> other, exc |-> "None"],
                               call.link_map)
                 ELSE [graph |-> r.graph, other |-> other, exc |-> r.exc]} :
          /\ \E P \in Programs : Registered(r._registry) \subseteq P
          /\ _registry' = r._registry
          /\ sinks' = r.sinks
          /\ graph' = l.graph
          /\ other' = l.other
          /\ exc' = l.exc
    /\ UNCHANGED <<sub_vars, element_vars, pad_vars, pc, runs, cycles, loop_vars>>

\* Pipeline.link(link_map), while the pipeline is assembled
Link(link_map) ==
    /\ pc = "idle"
    /\ \E l \in {LinkLoop(_registry, [graph |-> graph, other |-> other, exc |-> "None"],
                          link_map)} :
          /\ graph' = l.graph
          /\ other' = l.other
          /\ exc' = l.exc
    /\ UNCHANGED <<sub_vars, element_vars, _registry, sinks, pad_vars, pc, runs, cycles, loop_vars>>

\* Pipeline.run(): run_until_complete(self.__execute_graphs()) is entered
Run ==
    /\ pc \in {"idle", "returned", "raised"}
    /\ runs < MaxRuns
    /\ runs' = runs + 1
    /\ pc' = "while"
    /\ exc' = "None"
    /\ cycles' = 0
    /\ ts' = NoSorter
    /\ ready' = {}
    /\ node' = None
    /\ task' = NoTask
    /\ done_nodes' = <<>>
    /\ UNCHANGED <<sub_vars, element_vars, pipeline_vars, pad_vars>>

\* the while condition is false: __execute_graphs ends and run returns
Return ==
    /\ pc = "while"
    /\ AllAtEOS
    /\ pc' = "returned"
    /\ UNCHANGED <<sub_vars, element_vars, pipeline_vars, exc, pad_vars, runs, cycles, loop_vars>>

\* the while condition is true: a frame cycle begins with a new sorter;
\* ts.prepare() raises CycleError when the graph has a cycle
Prepare ==
    /\ pc = "while"
    /\ ~AllAtEOS
    /\ cycles' = Increment(cycles)
    /\ ncalls' = [p \in Pad |-> 0]
    /\ ts' = TopologicalSorter(graph)
    /\ done_nodes' = <<>>
    /\ IF find_cycle(graph)
       THEN pc' = "raised" /\ exc' = "CycleError"
       ELSE pc' = "is_active" /\ exc' = exc
    /\ UNCHANGED <<sub_vars, element_vars, pipeline_vars, output, input, frames, cnt, inbuf, _at_eos,
                   runs, ready, node, task>>

\* while ts.is_active(): the for loop starts on ts.get_ready(), or the
\* frame cycle is over
IsActive ==
    /\ pc = "is_active"
    /\ IF is_active(ts)
       THEN /\ ready' = ts.ready_nodes
            /\ ts' = get_ready(ts)
            /\ pc' = "for"
       ELSE /\ pc' = "while"
            /\ UNCHANGED <<ts, ready>>
    /\ UNCHANGED <<sub_vars, element_vars, pipeline_vars, exc, pad_vars, runs, cycles, node, task,
                   done_nodes>>

\* for node in ...: create_task(node()), add_done_callback(callback) and
\* await task, which suspends __execute_graphs; the order of the tuple
\* follows the iteration order of dicts and of sets of pads, which hash on a
\* random uuid, so any order is possible
For ==
    /\ pc = "for"
    /\ \E n \in ready :
          /\ node' = n
          /\ ready' = ready \ {n}
          /\ task' = [state |-> "pending", exception |-> "None"]
          /\ pc' = "await"
    /\ UNCHANGED <<sub_vars, element_vars, pipeline_vars, exc, pad_vars, runs, cycles, ts, done_nodes>>

\* the for loop is exhausted
ForEnd ==
    /\ pc = "for"
    /\ ready = {}
    /\ pc' = "get"
    /\ UNCHANGED <<sub_vars, element_vars, pipeline_vars, exc, pad_vars, runs, cycles, loop_vars>>

\* the event loop runs the task: the pad is executed, to its end since the
\* body of a pad has no await
TaskStep ==
    /\ pc = "await"
    /\ task.state = "pending"
    /\ ~PutBlocks(node)
    /\ \E ps \in {PadCall(PadState, node)} :
          /\ output' = ps.output
          /\ input' = ps.input
          /\ frames' = ps.frames
          /\ cnt' = ps.cnt
          /\ inbuf' = ps.inbuf
          /\ _at_eos' = ps._at_eos
          /\ ncalls' = ps.ncalls
          /\ in_queue' = ps.in_queue
          /\ task' = [state |-> "done", exception |-> ps.exception]
    /\ pc' = "callback"
    /\ UNCHANGED <<super_vars, event_vars, worker_vars, out_queue, element_vars, pipeline_vars, exc, runs, cycles, ts, ready, node, done_nodes>>

\* the event loop runs the done callback of the task
Callback ==
    /\ pc = "callback"
    /\ ts' = done(graph, ts, node)
    /\ done_nodes' = Append(done_nodes, node)
    /\ pc' = "wakeup"
    /\ UNCHANGED <<sub_vars, element_vars, pipeline_vars, exc, pad_vars, runs, cycles, ready, node, task>>

\* the event loop resumes __execute_graphs at "await task"
Wakeup ==
    /\ pc = "wakeup"
    /\ IF AwaitRaises(task)
       THEN pc' = "raised" /\ exc' = task.exception
       ELSE pc' = "for" /\ exc' = exc
    /\ UNCHANGED <<sub_vars, element_vars, pipeline_vars, pad_vars, runs, cycles, loop_vars>>

\* done_nodes.get(), which blocks while the queue is empty
Get ==
    /\ pc = "get"
    /\ done_nodes # <<>>
    /\ done_nodes' = Tail(done_nodes)
    /\ pc' = "is_active"
    /\ UNCHANGED <<sub_vars, element_vars, pipeline_vars, exc, pad_vars, runs, cycles, ts, ready, node,
                   task>>

Step == Return \/ Prepare \/ IsActive \/ For \/ ForEnd \/ TaskStep \/ Callback \/ Wakeup \/ Get

Next ==
    \/ \E call \in InsertCalls : Insert(call)
    \/ \E link_map \in LinkMaps : Link(link_map)
    \/ Run
    \/ Step

Spec == Init /\ [][Next]_vars

\* run_until_complete keeps the event loop going while __execute_graphs has
\* not ended, and the loop runs every callback that is ready
FairSpec == Spec /\ WF_vars(Step)

\* ---------------------------------------------------------------------
\* The subprocess elements and the SubProcess supervisor (subprocess.py)

\* whether SharedMemory(name=name, create=True) raises FileExistsError
Exists_Never(n) == FALSE
Exists(n) == n \in shm

\* the host is between two calls of the SubProcess API
HostIdle ==
    /\ ctx \in {"outside", "body"}
    /\ spc \in {"idle", "returned", "raised"}
    /\ sd.state # "waiting"

\* a to_shm whose failing call touches neither the roster nor the regions
to_shm_Keep(n) ==
    /\ ctx \in {"outside", "body"}
    /\ spc \in {"idle", "returned", "raised"}
    /\ sd.state # "waiting"
    /\ IF n \in shm
       THEN /\ UNCHANGED <<shm, shm_list>>
            /\ sexc' = "FileExistsError"
       ELSE /\ shm' = shm \cup {n}
            /\ shm_list' = Append(shm_list, n)
            /\ sexc' = "None"
    /\ UNCHANGED <<instance_list, ctx, spc, idx, sd, released, event_vars, worker_vars,
                   queue_vars, element_vars, pipeline_vars, exc, pad_vars, pc, runs,
                   cycles, loop_vars>>

\* SubProcess.to_shm(name, bytez)
to_shm(n) ==
    /\ HostIdle
    /\ IF Exists(n)
       THEN /\ shm' = shm \ Range(shm_list)
            /\ shm_list' = <<>>
            /\ sexc' = "FileExistsError"
       ELSE /\ shm' = shm \cup {n}
            /\ shm_list' = Append(shm_list, n)
            /\ sexc' = "None"
    /\ UNCHANGED <<instance_list, ctx, spc, idx, sd, released, event_vars, worker_vars,
                   queue_vars, element_vars, pipeline_vars, exc, pad_vars, pc, runs,
                   cycles, loop_vars>>

\* _SubProcessTransSink.__post_init__ of a further subprocess element: the
\* queues, the events, the Process object, instance_list.append(self)
SubProcessElement_post_init(e) ==
    /\ HostIdle
    /\ process[e] = "none"
    /\ process' = [process EXCEPT ![e] = "initial"]
    /\ instance_list' = Append(instance_list, e)
    /\ UNCHANGED <<shm, shm_list, ctx, spc, idx, sexc, sd, released, event_vars, wpc, tries,
                   queue_vars, element_vars, pipeline_vars, exc, pad_vars, pc, runs,
                   cycles, loop_vars>>

\* the elements of a list of instances
Instances(l) == {l[i] : i \in DOMAIN l}

\* Process.start() of a Process object that was not started
start(st) == IF st = "initial" THEN "started" ELSE st

\* SubProcess.__enter__: e.process.start() for every e of instance_list
Enter ==
    /\ HostIdle
    /\ ctx = "outside"
    /\ ctx' = "body"
    /\ process' = [e \in SubProcessElements |->
                     IF e \in Instances(instance_list) THEN start(process[e])
                     ELSE process[e]]
    /\ UNCHANGED <<shm, shm_list, instance_list, spc, idx, sexc, sd, released, event_vars,
                   wpc, tries, queue_vars, element_vars, pipeline_vars, exc, pad_vars, pc,
                   runs, cycles, loop_vars>>

\* whether Process.join raises "can only join a started process"
JoinRaises_Never(st) == FALSE
JoinRaises(st) == st = "initial"

\* Process.kill(): SIGKILL is sent to a process that runs, and the call
\* returns without waiting for the process to end
kill(st) == IF st = "started" THEN "killed" ELSE st

\* whether the OS process runs (Process.is_alive)
is_alive(st) == st \in {"started", "killed"}

\* SubProcess.run is called: assert self.pipeline is not None, then the try
\* block is entered
SubProcess_run ==
    /\ HostIdle
    /\ spc = "idle"
    /\ pc = "idle"
    /\ spc' = "try"
    /\ sexc' = "None"
    /\ UNCHANGED <<shm, shm_list, instance_list, ctx, idx, sd, released, event_vars,
                   worker_vars, queue_vars, element_vars, pipeline_vars, exc, pad_vars,
                   pc, runs, cycles, loop_vars>>

\* self.pipeline.run() inside the try block, up to its return or its exception
Pipeline_run ==
    /\ spc = "try"
    /\ \/ pc = "idle" /\ Run
       \/ Step

\* the process_stop.set() of every element of a list of instances
SetStop_None(l) == process_stop
SetStop(l) == [e \in SubProcessElements |-> process_stop[e] \/ e \in Instances(l)]

\* pipeline.run() returned: process_stop.set() for every instance, and
\* SubProcess.run returns
SubProcess_run_return ==
    /\ spc = "try"
    /\ pc = "returned"
    /\ process_stop' = SetStop(instance_list)
    /\ spc' = "returned"
    /\ UNCHANGED <<shm, shm_list, instance_list, ctx, idx, sexc, sd, released,
                   process_shutdown, terminated, worker_vars, queue_vars, element_vars,
                   pipeline_vars, exc, pad_vars, pc, runs, cycles, loop_vars>>

\* pipeline.run() raised an Exception: process_stop.set() for every instance,
\* before the loop that joins and kills
SubProcess_run_except ==
    /\ spc = "try"
    /\ pc = "raised"
    /\ process_stop' = SetStop(instance_list)
    /\ spc' = "join"
    /\ idx' = 1
    /\ UNCHANGED <<shm, shm_list, instance_list, ctx, sexc, sd, released,
                   process_shutdown, terminated, worker_vars, queue_vars, element_vars,
                   pipeline_vars, exc, pad_vars, pc, runs, cycles, loop_vars>>

\* one pass of the loop of SubProcess.run's handler: cancel_join_thread on
\* the queues that are not None, p.process.join(process_join_timeout), which
\* returns when the process has ended or the timeout has passed, then
\* p.process.kill(); after the last instance, raise RuntimeError(e)
SubProcess_run_join ==
    /\ spc = "join"
    /\ IF idx > Len(instance_list)
       THEN /\ spc' = "raised"
            /\ sexc' = "RuntimeError"
            /\ UNCHANGED <<idx, process>>
       ELSE IF JoinRaises(process[instance_list[idx]])
       THEN /\ spc' = "raised"
            /\ sexc' = "AssertionError"
            /\ UNCHANGED <<idx, process>>
       ELSE /\ process' = [process EXCEPT ![instance_list[idx]] = kill(@)]
            /\ idx' = idx + 1
            /\ UNCHANGED <<spc, sexc>>
    /\ UNCHANGED <<shm, shm_list, instance_list, ctx, sd, released, event_vars, wpc, tries,
                   queue_vars, element_vars, pipeline_vars, exc, pad_vars, pc, runs,
                   cycles, loop_vars>>

\* SubProcess.multiprocess_enabled: set at the end of __enter__ and cleared at
\* the end of an __exit__ that completes
multiprocess_enabled == ctx \in {"body", "exit", "raised"}

\* SubProcess.__exit__ is entered, the body of the with statement having
\* completed or raised
Exit ==
    /\ HostIdle
    /\ ctx = "body"
    /\ ctx' = "exit"
    /\ idx' = 1
    /\ UNCHANGED <<shm, shm_list, instance_list, spc, sexc, sd, released, event_vars,
                   worker_vars, queue_vars, element_vars, pipeline_vars, exc, pad_vars,
                   pc, runs, cycles, loop_vars>>

\* one pass of the loop of __exit__ that joins and kills; after the last
\* instance: instance_list = [], every region of shm_list is unlinked,
\* shm_list = []
Exit_join ==
    /\ ctx = "exit"
    /\ IF idx > Len(instance_list)
       THEN /\ instance_list' = <<>>
            /\ shm' = shm \ Range(shm_list)
            /\ shm_list' = <<>>
            /\ ctx' = "exited"
            /\ UNCHANGED <<idx, process, sexc>>
       ELSE IF JoinRaises(process[instance_list[idx]])
       THEN /\ ctx' = "raised"
            /\ sexc' = "AssertionError"
            /\ UNCHANGED <<idx, process, instance_list, shm, shm_list>>
       ELSE /\ process' = [process EXCEPT ![instance_list[idx]] = kill(@)]
            /\ idx' = idx + 1
            /\ UNCHANGED <<ctx, sexc, instance_list, shm, shm_list>>
    /\ UNCHANGED <<spc, sd, released, event_vars, wpc, tries, queue_vars, element_vars,
                   pipeline_vars, exc, pad_vars, pc, runs, cycles, loop_vars>>

\* the values of timeout the program passes to sub_process_shutdown
Timeouts == 0..MaxSleeps - 1

\* time.time() - start > timeout after the given number of time.sleep(1):
\* each sleep lasts at least a second and the loop takes time besides
Exceeds_Never(sleeps, timeout) == FALSE
Exceeds(sleeps, timeout) == sleeps >= timeout

\* sub_process_shutdown(timeout) is called: process_shutdown.set()
sub_process_shutdown(e, timeout) ==
    /\ HostIdle
    /\ process[e] # "none"
    /\ ~process_shutdown[e]
    /\ process_shutdown' = [process_shutdown EXCEPT ![e] = TRUE]
    /\ sd' = [element |-> e, timeout |-> timeout, sleeps |-> 0, state |-> "waiting",
              out |-> <<>>]
    /\ sexc' = "None"
    /\ UNCHANGED <<shm, shm_list, instance_list, ctx, spc, idx, released, process_stop,
                   terminated, worker_vars, queue_vars, element_vars, pipeline_vars, exc,
                   pad_vars, pc, runs, cycles, loop_vars>>

\* a loop that collects the items of the queue last first
RECURSIVE get_all_Reversed(_)
get_all_Reversed(q) == IF q = <<>> THEN <<>> ELSE Append(get_all_Reversed(Tail(q)), Head(q))

\* while not self.out_queue.empty(): out.append(self.out_queue.get_nowait())
RECURSIVE get_all(_)
get_all(q) == IF q = <<>> THEN <<>> ELSE <<Head(q)>> \o get_all(Tail(q))

\* one pass of the loop of sub_process_shutdown: time.sleep(1), break when
\* terminated is set, raise when the timeout is exceeded; after the break
\* out_queue is emptied into out, process_stop is set, the queues are
\* released and out is returned (sd.out, while sd.state is "none")
sub_process_shutdown_sleep ==
    /\ sd.state = "waiting"
    /\ \E sleeps \in {IF sd.sleeps < MaxSleeps THEN sd.sleeps + 1 ELSE MaxSleeps} :
       IF terminated[sd.element]
       THEN /\ sd' = [NoShutdown EXCEPT !.out = IF released[sd.element] THEN <<>>
                                                ELSE get_all(out_queue[sd.element])]
            /\ out_queue' = IF released[sd.element] THEN out_queue
                            ELSE [out_queue EXCEPT ![sd.element] = <<>>]
            /\ process_stop' = [process_stop EXCEPT ![sd.element] = TRUE]
            /\ released' = [released EXCEPT ![sd.element] = TRUE]
            /\ sexc' = sexc
       ELSE IF sd.timeout > 0 /\ Exceeds(sleeps, sd.timeout)
       THEN /\ sd' = NoShutdown
            /\ sexc' = "RuntimeError"
            /\ UNCHANGED <<out_queue, process_stop, released>>
       ELSE /\ sd' = [sd EXCEPT !.sleeps = sleeps]
            /\ UNCHANGED <<out_queue, process_stop, released, sexc>>
    /\ UNCHANGED <<shm, shm_list, instance_list, ctx, spc, idx, process_shutdown,
                   terminated, worker_vars, in_queue, element_vars, pipeline_vars, exc,
                   pad_vars, pc, runs, cycles, loop_vars>>

\* what the worker leaves alone
worker_frame == <<super_vars, process_stop, process_shutdown, element_vars,
                  pipeline_vars, exc, pad_vars, pc, runs, cycles, loop_vars>>

\* Queue.get on a queue that holds an item
get(q) == Tail(q)

\* a worker that waits for process_stop whatever the events are
Worker_end_Wait(e, inq) ==
    /\ terminated' = [terminated EXCEPT ![e] = TRUE]
    /\ tries' = [tries EXCEPT ![e] = 0]
    /\ wpc' = [wpc EXCEPT ![e] = "wait_stop"]
    /\ in_queue' = inq
    /\ UNCHANGED <<process, out_queue>>

\* a wrapper that runs _drainqs as soon as terminated is set, whatever the
\* events say
Worker_end_Discard(e, inq) ==
    /\ terminated' = [terminated EXCEPT ![e] = TRUE]
    /\ tries' = [tries EXCEPT ![e] = 0]
    /\ wpc' = [wpc EXCEPT ![e] = "end"]
    /\ process' = [process EXCEPT ![e] = "stopped"]
    /\ in_queue' = [in_queue EXCEPT ![e] = <<>>]
    /\ out_queue' = [out_queue EXCEPT ![e] = <<>>]

\* a wrapper out of which the exception escapes: the process ends without
\* terminated.set() and without _drainqs
Worker_end_Escape(e, inq) ==
    /\ wpc' = [wpc EXCEPT ![e] = "end"]
    /\ process' = [process EXCEPT ![e] = "stopped"]
    /\ tries' = [tries EXCEPT ![e] = 0]
    /\ in_queue' = inq
    /\ UNCHANGED <<terminated, out_queue>>

\* lines 269-273: terminated.set(); on shutdown without stop the worker
\* waits for stop; otherwise _drainqs empties and closes both queues and the
\* process ends. inq is in_queue as the worker leaves it
Worker_end(e, inq) ==
    /\ terminated' = [terminated EXCEPT ![e] = TRUE]
    /\ tries' = [tries EXCEPT ![e] = 0]
    /\ IF process_shutdown[e] /\ ~process_stop[e]
       THEN /\ wpc' = [wpc EXCEPT ![e] = "wait_stop"]
            /\ in_queue' = inq
            /\ UNCHANGED <<process, out_queue>>
       ELSE /\ wpc' = [wpc EXCEPT ![e] = "end"]
            /\ process' = [process EXCEPT ![e] = "stopped"]
            /\ in_queue' = [in_queue EXCEPT ![e] = <<>>]
            /\ out_queue' = [out_queue EXCEPT ![e] = <<>>]

\* a consumer that takes no item
sub_process_internal_Pass(e) == in_queue

\* MyLoggingSinkElement.sub_process_internal and
\* MyTransformClass.sub_process_internal: inq.get(timeout=1) takes an item,
\* or Empty is passed over; this is in_queue after the call
sub_process_internal(e) ==
    IF in_queue[e] # <<>> THEN [in_queue EXCEPT ![e] = get(@)] ELSE in_queue

\* out_queue after the call: MyTransformClass puts the frame it has taken
\* (kwargs["outq"].put(frame)), MyLoggingSinkElement puts nothing
sub_process_internal_outq(e) ==
    IF klass[e] = "MyTransformClass" /\ in_queue[e] # <<>>
    THEN [out_queue EXCEPT ![e] = put(@, Head(in_queue[e]))]
    ELSE out_queue

\* whether the call stays in kwargs["outq"].put(frame): the get and the put
\* of one call are one step, taken when out_queue has room
OutqBlocks(e) ==
    klass[e] = "MyTransformClass" /\ in_queue[e] # <<>> /\ Len(out_queue[e]) >= Capacity(e)

\* line 242, the while condition true, and one call of func(**kwargs), which
\* returns or raises an Exception that the handler at line 267 catches
Worker_func(e) ==
    /\ process[e] = "started"
    /\ wpc[e] = "while"
    /\ ~process_shutdown[e] /\ ~process_stop[e]
    /\ \/ /\ ~OutqBlocks(e)
          /\ in_queue' = sub_process_internal(e)
          /\ out_queue' = sub_process_internal_outq(e)
          /\ UNCHANGED <<terminated, process, wpc, tries>>
       \/ Worker_end(e, sub_process_internal(e))
    /\ UNCHANGED worker_frame

\* line 242, the while condition false; line 252: drain mode is entered on
\* shutdown without stop
Worker_while_end(e) ==
    /\ process[e] = "started"
    /\ wpc[e] = "while"
    /\ process_shutdown[e] \/ process_stop[e]
    /\ IF process_shutdown[e] /\ ~process_stop[e]
       THEN /\ wpc' = [wpc EXCEPT ![e] = "drain"]
            /\ UNCHANGED <<terminated, process, tries, queue_vars>>
       ELSE Worker_end(e, in_queue)
    /\ UNCHANGED worker_frame

\* one pass of the drain loop, lines 255-265; a call of func that raises
\* has taken its item and has put nothing
Worker_drain(e) ==
    /\ process[e] = "started"
    /\ wpc[e] = "drain"
    /\ IF in_queue[e] # <<>>
       THEN \/ /\ ~OutqBlocks(e)
               /\ in_queue' = sub_process_internal(e)
               /\ out_queue' = sub_process_internal_outq(e)
               /\ tries' = [tries EXCEPT ![e] = 0]
               /\ UNCHANGED <<terminated, process, wpc>>
            \/ Worker_end(e, sub_process_internal(e))
       ELSE IF tries[e] + 1 > num_empty
       THEN Worker_end(e, in_queue)
       ELSE /\ tries' = [tries EXCEPT ![e] = @ + 1]
            /\ UNCHANGED <<terminated, process, wpc, queue_vars>>
    /\ UNCHANGED worker_frame

\* a KeyboardInterrupt is raised inside func(**kwargs) in the first loop,
\* before or after the call has taken its item: lines 245-250 catch it and
\* the loop continues
Worker_func_interrupt(e) ==
    /\ process[e] = "started"
    /\ wpc[e] = "while"
    /\ ~process_shutdown[e] /\ ~process_stop[e]
    /\ in_queue' \in {in_queue, sub_process_internal(e)}
    /\ UNCHANGED <<worker_frame, terminated, process, wpc, tries, out_queue>>

\* a KeyboardInterrupt is raised inside func(**kwargs) in the drain loop:
\* no handler of the loop catches it, and "except Exception" at line 267
\* does not either; it leaves the wrapper before terminated.set() and
\* _drainqs, and the process ends
Worker_drain_interrupt(e) ==
    /\ process[e] = "started"
    /\ wpc[e] = "drain"
    /\ in_queue[e] # <<>>
    /\ in_queue' \in {in_queue, sub_process_internal(e)}
    /\ wpc' = [wpc EXCEPT ![e] = "interrupted"]
    /\ process' = [process EXCEPT ![e] = "stopped"]
    /\ tries' = [tries EXCEPT ![e] = 0]
    /\ UNCHANGED <<worker_frame, terminated, out_queue>>

\* line 271: the wait for process_stop ends; _drainqs; the process ends
Worker_wait_stop(e) ==
    /\ process[e] = "started"
    /\ wpc[e] = "wait_stop"
    /\ process_stop[e]
    /\ wpc' = [wpc EXCEPT ![e] = "end"]
    /\ process' = [process EXCEPT ![e] = "stopped"]
    /\ in_queue' = [in_queue EXCEPT ![e] = <<>>]
    /\ out_queue' = [out_queue EXCEPT ![e] = <<>>]
    /\ UNCHANGED <<worker_frame, terminated, tries>>

\* SIGKILL reaches the process, wherever the worker is
Worker_killed(e) ==
    /\ process[e] = "killed"
    /\ process' = [process EXCEPT ![e] = "stopped"]
    /\ wpc' = [wpc EXCEPT ![e] = "end"]
    /\ tries' = [tries EXCEPT ![e] = 0]
    /\ UNCHANGED <<worker_frame, terminated, queue_vars>>

Worker(e) ==
    \/ Worker_func(e)
    \/ Worker_while_end(e)
    \/ Worker_drain(e)
    \/ Worker_wait_stop(e)
    \/ Worker_killed(e)

\* the pipelines of the subprocess programs: a FakeSrc into a subprocess
\* sink, alone or next to the MyBrokenSinkClass of test_subprocess_exception
SubPrograms == {
    [elements |-> <<<<"e1">>, <<"snk4">>>>,
     link_map |-> <<<<"snk4:sink:H1", "src1:src:H1">>>>],
    [elements |-> <<<<"e1">>, <<"snk4">>, <<"snk3">>>>,
     link_map |-> <<<<"snk4:sink:H1", "src1:src:H1">>, <<"snk3:sink:H1", "src1:src:H1">>>>]}

\* the elements are constructed and pipeline.insert(*elements, link_map=...)
\* has returned, as in tests/test_subprocess.py 110-132
SubInit ==
    /\ num_frames \in {[e \in SourceElements |-> IF e = <<"e3">> THEN 1 ELSE n] :
                         n \in 0..MaxNumFrames}
    /\ \E prog \in SubPrograms :
       \E r \in {InsertLoop([_registry |-> EmptyDict, graph |-> EmptyDict,
                             sinks |-> EmptyDict, exc |-> "None"], prog.elements)} :
       \E l \in {LinkLoop(r._registry,
                          [graph |-> r.graph, other |-> [p \in SinkPad |-> None],
                           exc |-> "None"],
                          prog.link_map)} :
          /\ _registry = r._registry
          /\ sinks = r.sinks
          /\ graph = l.graph
          /\ other = l.other
          /\ exc = l.exc
    /\ output = [p \in SourcePad |-> NoFrame]
    /\ input = [p \in SinkPad |-> NoFrame]
    /\ frames = EmptyDict
    /\ cnt = [p \in SourcePad |-> -1]
    /\ inbuf = [e \in TransformElements |-> <<>>]
    /\ _at_eos = [p \in UNION {Range(sink_pads[e]) : e \in SinkElements} |-> FALSE]
    /\ pc = "idle"
    /\ runs = 0
    /\ cycles = 0
    /\ ts = NoSorter
    /\ ready = {}
    /\ node = None
    /\ task = NoTask
    /\ done_nodes = <<>>
    /\ ncalls = [p \in Pad |-> 0]
    /\ shm = {}
    /\ shm_list = <<>>
    /\ instance_list = <<<<"snk4">>>>
    /\ ctx = "outside"
    /\ spc = "idle"
    /\ idx = 0
    /\ sexc = "None"
    /\ sd = NoShutdown
    /\ in_queue = [e \in SubProcessElements |-> <<>>]
    /\ out_queue = [e \in SubProcessElements |-> <<>>]
    /\ released = [e \in SubProcessElements |-> FALSE]
    /\ process_stop = [e \in SubProcessElements |-> FALSE]
    /\ process_shutdown = [e \in SubProcessElements |-> FALSE]
    /\ terminated = [e \in SubProcessElements |-> FALSE]
    /\ process = [e \in SubProcessElements |-> IF e = <<"snk4">> THEN "initial" ELSE "none"]
    /\ wpc = [e \in SubProcessElements |-> "while"]
    /\ tries = [e \in SubProcessElements |-> 0]

SubNext ==
    \/ \E n \in ShmNames : to_shm(n)
    \/ \E e \in SubProcessElements : SubProcessElement_post_init(e)
    \/ Enter
    \/ SubProcess_run
    \/ Pipeline_run
    \/ SubProcess_run_return
    \/ SubProcess_run_except
    \/ SubProcess_run_join
    \/ Exit
    \/ Exit_join
    \/ \E e \in SubProcessElements, timeout \in Timeouts : sub_process_shutdown(e, timeout)
    \/ sub_process_shutdown_sleep
    \/ \E e \in SubProcessElements : Worker(e)

SubSpec == SubInit /\ [][SubNext]_vars

\* ---------------------------------------------------------------------
\* The worker wrapper on events and queues the caller has prepared, as in
\* test_subprocess_wrapper, test_subprocess_wrapper_3 and
\* test_subprocess_drain_queue (tests/test_subprocess.py 140-274)

\* Frame(data=f"Test Item {i}", EOS=False) for i in range(k)
TestItems(k) == [i \in 1..k |-> Frame(FALSE, "Test Item " \o Str(i - 1))]

\* an item that is in out_queue when the wrapper begins, as the outq.put(None)
\* of test_subprocess_wrapper_3 puts one; the host has not taken it
EarlierItem == Frame(FALSE, "Earlier Item")

\* process_stop.set() by the caller of the wrapper
Stop(e) ==
    /\ HostIdle
    /\ process[e] # "none"
    /\ ~process_stop[e]
    /\ process_stop' = [process_stop EXCEPT ![e] = TRUE]
    /\ UNCHANGED <<super_vars, process_shutdown, terminated, worker_vars, queue_vars,
                   element_vars, pipeline_vars, exc, pad_vars, pc, runs, cycles, loop_vars>>

\* the events are set or not, in_queue holds the items the caller has put,
\* out_queue is empty or holds an earlier item, and the wrapper of the element is about to run; there is no pipeline
WrapperInit ==
    /\ num_frames = [e \in SourceElements |-> IF e = <<"e3">> THEN 1 ELSE 0]
    /\ _registry = EmptyDict
    /\ graph = EmptyDict
    /\ sinks = EmptyDict
    /\ other = [p \in SinkPad |-> None]
    /\ exc = "None"
    /\ output = [p \in SourcePad |-> NoFrame]
    /\ input = [p \in SinkPad |-> NoFrame]
    /\ frames = EmptyDict
    /\ cnt = [p \in SourcePad |-> -1]
    /\ inbuf = [e \in TransformElements |-> <<>>]
    /\ _at_eos = [p \in UNION {Range(sink_pads[e]) : e \in SinkElements} |-> FALSE]
    /\ pc = "idle"
    /\ runs = 0
    /\ cycles = 0
    /\ ts = NoSorter
    /\ ready = {}
    /\ node = None
    /\ task = NoTask
    /\ done_nodes = <<>>
    /\ ncalls = [p \in Pad |-> 0]
    /\ shm = {}
    /\ shm_list = <<>>
    /\ instance_list = <<<<"snk5">>>>
    /\ ctx = "body"
    /\ spc = "idle"
    /\ idx = 0
    /\ sexc = "None"
    /\ sd = NoShutdown
    /\ \E k \in 0..maxsize :
          in_queue = [e \in SubProcessElements |-> IF e = <<"snk5">> THEN TestItems(k) ELSE <<>>]
    /\ \E q \in {<<>>, <<EarlierItem>>} :
          out_queue = [e \in SubProcessElements |-> IF e = <<"snk5">> THEN q ELSE <<>>]
    /\ released = [e \in SubProcessElements |-> FALSE]
    /\ \E set \in BOOLEAN : process_stop = [e \in SubProcessElements |-> e = <<"snk5">> /\ set]
    /\ \E set \in BOOLEAN :
          process_shutdown = [e \in SubProcessElements |-> e = <<"snk5">> /\ set]
    /\ terminated = [e \in SubProcessElements |-> FALSE]
    /\ process = [e \in SubProcessElements |-> IF e = <<"snk5">> THEN "started" ELSE "none"]
    /\ wpc = [e \in SubProcessElements |-> "while"]
    /\ tries = [e \in SubProcessElements |-> 0]

WrapperNext ==
    \/ \E e \in SubProcessElements, timeout \in Timeouts : sub_process_shutdown(e, timeout)
    \/ sub_process_shutdown_sleep
    \/ \E e \in SubProcessElements : Stop(e)
    \/ \E e \in SubProcessElements : Worker_func(e)
    \/ \E e \in SubProcessElements : Worker_while_end(e)
    \/ \E e \in SubProcessElements : Worker_drain(e)
    \/ \E e \in SubProcessElements : Worker_wait_stop(e)
    \/ \E e \in SubProcessElements : Worker_func_interrupt(e)
    \/ \E e \in SubProcessElements : Worker_drain_interrupt(e)

WrapperSpec == WrapperInit /\ [][WrapperNext]_vars


(***************************************************************************)
(* The properties                                                          *)
(***************************************************************************)
\* the elements whose insert succeeded
Inserted == {e \in Registered(_registry) :
               \A i \in DOMAIN pad_list(e) :
                  /\ PadName(pad_list(e)[i]) \in DOMAIN _registry
                  /\ _registry[PadName(pad_list(e)[i])] = pad_list(e)[i]}

\* C1: in every frame cycle, when the consumer callback of a linked sink
\* pad has been invoked, the producer callback of the source pad it is
\* linked to has already completed in the same cycle
C1_ProducerBeforeConsumer ==
    \A p \in SinkPad :
       ncalls[p] > 0 => other[p] \in SourcePad /\ ncalls[other[p]] > 0

\* a sink pad has consumed in the second frame cycle, behind a transform
C1_Witness ==
    \E p \in SinkPad :
       /\ ncalls[p] > 0
       /\ cycles = 2
       /\ other[p] \in SourcePad
       /\ element(other[p]) \in TransformElements

\* C2: in every frame cycle, when transform has been called on a source
\* pad of a TransformElement of the pipeline, pull has already been called
\* on every sink pad of that element in the same cycle
C2_PullBeforeTransform ==
    \A e \in TransformElements \cap Inserted :
       \A s \in Range(source_pads[e]) :
          ncalls[s] > 0 => \A k \in Range(sink_pads[e]) : ncalls[k] > 0

\* the transform with two sink pads has produced in the second frame cycle
C2_Witness ==
    /\ ncalls[<<"trans2", "src", "H1">>] > 0
    /\ cycles = 2

\* C3: when every source is a FakeSrc, which returns EOS frames from some
\* count on, every transform a FakeTransform, which ORs the EOS of its
\* inputs, and every sink element a FakeSink, which marks EOS frames, a call
\* of run ends after finitely many frame cycles
C3_RunEnds ==
    (pc = "while" /\ \A n \in DOMAIN sinks : klass[sinks[n]] = "FakeSink")
       ~> (pc \in {"returned", "raised"})

\* the EOS predicate of the pipeline: every SinkElement of the pipeline has
\* at least one flagged sink pad
EveryElementFlagged(at) ==
    \A n \in DOMAIN sinks : \E p \in Range(sink_pads[sinks[n]]) : at[p]

\* C4: run returns exactly at the first frame boundary at which every
\* SinkElement has a flagged sink pad: at a frame boundary run returns if
\* the predicate holds and starts a further cycle if it does not, run never
\* returns from inside a frame cycle, and at the boundary that ends a cycle
\* every pad of the graph has been invoked in that cycle
C4_ReturnAtFrameBoundary ==
    [][/\ pc = "while" /\ EveryElementFlagged(_at_eos)
          => pc' = "returned" /\ cycles' = cycles /\ UNCHANGED pad_vars
       /\ pc = "while" /\ ~EveryElementFlagged(_at_eos)
          => pc' \in {"is_active", "raised"} /\ cycles' = Increment(cycles)
       /\ pc # "while" /\ pc # "returned" => pc' # "returned"
       /\ pc = "while" /\ cycles > 0 => \A p \in Nodes(graph) : ncalls[p] = 1]_vars

\* run has returned after two frame cycles: snk1 was at EOS after the first
\* cycle, snk2 only after the second, in which the pads of snk1 ran again
C4_Witness ==
    /\ pc = "returned"
    /\ cycles = 2
    /\ {sinks[n] : n \in DOMAIN sinks} = {<<"snk1">>, <<"snk2">>}
    /\ other[<<"snk1", "sink", "L1">>] = <<"e3", "src", "H1">>
    /\ other[<<"snk2", "sink", "H1">>] = <<"e1", "src", "H1">>
    /\ _at_eos[<<"snk1", "sink", "L1">>]
    /\ _at_eos[<<"snk2", "sink", "H1">>]
    /\ ncalls[<<"snk1", "sink", "L1">>] = 1

\* C5: every EOS flag starts false and no step clears one; no step takes a
\* SinkElement out of EOS, and no step of a run makes the EOS predicate of
\* the pipeline false again
C5_EOSMonotone ==
    /\ \A p \in DOMAIN _at_eos : ~_at_eos[p]
    /\ [][/\ \A p \in DOMAIN _at_eos : _at_eos[p] => _at_eos'[p]
          /\ \A e \in SinkElements :
                (\E p \in Range(sink_pads[e]) : _at_eos[p])
                   => (\E p \in Range(sink_pads[e]) : _at_eos'[p])
          /\ pc # "idle" /\ EveryElementFlagged(_at_eos) => EveryElementFlagged(_at_eos')]_vars

\* a flagged sink pad has pulled a further frame: the pad is linked to the
\* source that is at EOS from its first frame on, and has pulled its second
C5_Witness ==
    /\ other[<<"snk1", "sink", "L1">>] = <<"e3", "src", "H1">>
    /\ cnt[<<"e3", "src", "H1">>] = 1
    /\ ncalls[<<"snk1", "sink", "L1">>] = 1
    /\ _at_eos[<<"snk1", "sink", "L1">>]

\* the names an element brings into the registry
NamesOf(e) == {name[e]} \cup {pad_name[q] : q \in Range(pad_list(e))}

\* whether the insert of the elements els, in this order, meets an argument
\* that is not an element or a name that is already present
MeetsTakenName(reg, els) ==
    \E i \in DOMAIN els :
       \/ els[i] \notin Elements
       \/ NamesOf(els[i]) \cap DOMAIN reg # {}
       \/ \E j \in 1..(i - 1) : els[j] \in Elements /\ NamesOf(els[j]) \cap NamesOf(els[i]) # {}

\* C6: while the pipeline is assembled, a call of Pipeline.insert fails
\* when an argument is not an element or when the name of an element or of
\* one of its pads is already in the registry, and otherwise succeeds and
\* registers every name; no insert rebinds a name, and every registered
\* name maps to the one element or pad that carries it
C6_InsertUniqueNames ==
    pc = "idle" =>
       /\ \A n \in DOMAIN _registry : ObjName(_registry[n]) = n
       /\ \A call \in InsertCalls :
             \E r \in {InsertLoop([_registry |-> _registry, graph |-> graph, sinks |-> sinks,
                                   exc |-> "None"], call.elements)} :
                /\ MeetsTakenName(_registry, call.elements) => r.exc = "AssertionError"
                /\ ~MeetsTakenName(_registry, call.elements)
                     => /\ r.exc = "None"
                        /\ \A i \in DOMAIN call.elements :
                              NamesOf(call.elements[i]) \subseteq DOMAIN r._registry
                /\ \A n \in DOMAIN _registry :
                      n \in DOMAIN r._registry /\ r._registry[n] = _registry[n]
                /\ \A n \in DOMAIN r._registry : ObjName(r._registry[n]) = n

\* the insert of e2 has failed on the name of its pad, which the pad of e1
\* holds, after its element name was registered
C6_Witness ==
    /\ exc = "AssertionError"
    /\ "src2" \in DOMAIN _registry
    /\ _registry["src1:src:H1"] = <<"e1", "src", "H1">>
    /\ <<"e2", "src", "H1">> \notin DOMAIN graph

\* the graph has a cycle: some pad depends on itself along the edges
Cyclic(g) == \E n \in DOMAIN g : \E m \in g[n] : n \in Closure(g, {m})

\* C7 as stated: when the graph has a cycle, no call of run returns normally
C7_EveryRunFails == ~(Cyclic(graph) /\ pc = "returned")

\* C7: when the graph has a cycle, a call of run returns normally without
\* looking at the graph if the pipeline has no SinkElement that is not at
\* EOS, and otherwise fails with CycleError at the start of its first frame
\* cycle; in both cases no pad callback is ever invoked
C7_CycleErrorBeforeAnyPad ==
    Cyclic(graph) /\ pc # "idle" =>
       /\ pc \in {"while", "returned", "raised"}
       /\ pc = "returned" => EveryElementFlagged(_at_eos) /\ cycles = 0
       /\ pc = "raised" => exc = "CycleError" /\ cycles = 1 /\ ~EveryElementFlagged(_at_eos)
       /\ \A q \in Pad : ncalls[q] = 0
       /\ \A q \in SourcePad : output[q] = NoFrame /\ cnt[q] = -1
       /\ \A q \in SinkPad : input[q] = NoFrame

\* the second call of run on a pipeline with a cycle and a sink has failed
C7_Witness ==
    /\ Cyclic(graph)
    /\ pc = "raised"
    /\ exc = "CycleError"
    /\ runs = 2
    /\ DOMAIN sinks # {}

\* C8: in every frame cycle, the sink pads that are linked to the same
\* source pad and have been invoked hold the very Frame object the source
\* pad produced in that cycle
C8_FanOutSameFrame ==
    \A q \in SinkPad :
       ncalls[q] > 0 /\ other[q] \in SourcePad =>
          /\ input[q] = output[other[q]]
          /\ \A r \in SinkPad : ncalls[r] > 0 /\ other[r] = other[q] => input[r] = input[q]

\* two sink pads linked to one source pad have both pulled in the second cycle
C8_Witness ==
    \E q, r \in SinkPad :
       /\ q # r
       /\ other[q] \in SourcePad
       /\ other[r] = other[q]
       /\ ncalls[q] > 0
       /\ ncalls[r] > 0
       /\ cycles = 2

\* C9: once the task of a pad has ended with an exception, the await raises
\* it, run ends with that exception, and until run is called again no pad
\* is invoked and the state the pads have left is kept as it is
C9_ExceptionEndsRun ==
    [][/\ task.exception # "None" /\ pc \in {"callback", "wakeup"} => UNCHANGED pad_vars
       /\ task.exception # "None" /\ pc = "wakeup" => pc' = "raised" /\ exc' = task.exception
       /\ pc = "raised" => pc' = "while" /\ runs' = runs + 1 /\ UNCHANGED pad_vars]_vars

\* pull of the broken sink has raised after the other sink had been flagged
\* in the same wave, whose tuple was not exhausted
C9_Witness ==
    /\ pc = "raised"
    /\ exc = "ValueError"
    /\ _at_eos[<<"snk1", "sink", "H1">>]
    /\ ncalls[<<"snk3", "sink", "H1">>] = 1
    /\ ready # {}

\* C10: while an inserted element has a sink pad that was never linked, no
\* frame cycle of run comes to its end
C10_UnlinkedSinkPadIsFatal ==
    (\E e \in Inserted : \E q \in Range(sink_pads[e]) : other[q] = None)
       => ~(pc = "while" /\ cycles >= 1)

\* the chain FakeSrc -> FakeTransform -> FakeSink with one pad each, as
\* tests/test_graph.py 10-42 builds it
Chain ==
    /\ {<<"e1">>, <<"trans1">>, <<"snk2">>} \subseteq Inserted
    /\ other[<<"trans1", "sink", "H1">>] = <<"e1", "src", "H1">>
    /\ other[<<"snk2", "sink", "H1">>] = <<"trans1", "src", "H1">>

\* the number of frame cycles of the chain for num_frames = n
ChainCycles(n) == IF n >= 1 THEN n ELSE 1

C12_EachPadOncePerCycle ==
    /\ \A q \in Pad : ncalls[q] <= 1
    /\ \A q \in Pad : ncalls[q] = 1 => q \in Nodes(graph)
    /\ pc = "while" /\ cycles > 0 => \A q \in Nodes(graph) : ncalls[q] = 1
    /\ pc \in {"is_active", "for", "await"} => \A q \in ready \cup ts.ready_nodes : ncalls[q] = 0

\* the second frame cycle of a graph of at least five pads has ended
C12_Witness ==
    /\ pc = "while"
    /\ cycles = 2
    /\ Cardinality(Nodes(graph)) >= 5
    /\ \A q \in Nodes(graph) : ncalls[q] = 1

\* C20: the source pad that an inserted element named E creates from the
\* pad name P is registered as "E:src:P" and its sink pad as "E:sink:P", in
\* the order of the pad names (e2 aside, whose pad is renamed after
\* construction)
C20_PadNames ==
    \A e \in Inserted \ {<<"e2">>} :
       /\ \A i \in DOMAIN source_pad_names[e] :
             /\ name[e] \o ":src:" \o source_pad_names[e][i] \in DOMAIN _registry
             /\ _registry[name[e] \o ":src:" \o source_pad_names[e][i]] = source_pads[e][i]
             /\ PadName(pad_list(e)[i]) = name[e] \o ":src:" \o source_pad_names[e][i]
       /\ \A i \in DOMAIN sink_pad_names[e] :
             /\ name[e] \o ":sink:" \o sink_pad_names[e][i] \in DOMAIN _registry
             /\ _registry[name[e] \o ":sink:" \o sink_pad_names[e][i]] = sink_pads[e][i]
             /\ PadName(pad_list(e)[Len(source_pad_names[e]) + i])
                   = name[e] \o ":sink:" \o sink_pad_names[e][i]

\* a source, a transform with two sink pads and a sink are inserted
C20_Witness ==
    /\ <<"e1">> \in Inserted
    /\ <<"trans2">> \in Inserted
    /\ <<"snk2">> \in Inserted

\* the number of entries of the roster with the given name
Count(l, n) == Cardinality({i \in DOMAIN l : l[i] = n})

\* C17: SubProcess.to_shm with a name that the roster already holds raises
\* FileExistsError and adds no second entry for the name; whatever calls of
\* to_shm were made, the roster holds at most one entry per name.
C17_DuplicateNameIsFatal ==
    /\ [](\A n \in ShmNames : Count(shm_list, n) <= 1)
    /\ [][\A n \in ShmNames :
            Count(shm_list, n) >= 1 /\ to_shm(n) =>
               sexc' = "FileExistsError" /\ Count(shm_list', n) <= 1]_vars

\* a call of to_shm inside the context has failed on a registered name and
\* has emptied the roster
C17_Witness ==
    /\ sexc = "FileExistsError"
    /\ shm_list = <<>>
    /\ shm = {}
    /\ ctx = "body"

\* C18: a pass of the wait loop of sub_process_shutdown(timeout) raises
\* RuntimeError exactly when terminated is not set and timeout > 0 seconds
\* have passed since the call; with timeout = 0 it never raises, and the call
\* goes past the loop only when terminated is set.
C18_ShutdownTimeout ==
    [][sd.state = "waiting" /\ sd' # sd =>
          /\ sexc' = "RuntimeError" <=>
                /\ ~terminated[sd.element]
                /\ sd.timeout > 0
                /\ sd.sleeps + 1 >= sd.timeout
          /\ sd.timeout = 0 => sexc' # "RuntimeError"
          /\ sd'.state = "none" /\ sexc' # "RuntimeError" =>
                terminated[sd.element] /\ released'[sd.element]]_vars

\* sub_process_shutdown(timeout) with timeout > 0 has raised on a worker
\* that runs and has not set terminated
C18_Witness ==
    /\ sexc = "RuntimeError"
    /\ spc = "idle"
    /\ sd.state = "none"
    /\ process_shutdown[<<"snk4">>]
    /\ process[<<"snk4">>] = "started"
    /\ ~terminated[<<"snk4">>]

\* C14: at the step that ends SubProcess.run, by its return or by an
\* exception after Pipeline.run raised, process_stop is set on every element
\* of instance_list.
C14_StopSetWhenRunEnds ==
    [][(spc \in {"try", "join"}) /\ spc' \in {"returned", "raised"} =>
          (\A e \in Instances(instance_list') : process_stop'[e])]_vars

\* SubProcess.run has raised RuntimeError with two instances, both stopped
C14_Witness ==
    /\ spc = "raised"
    /\ sexc = "RuntimeError"
    /\ exc = "ValueError"
    /\ Len(instance_list) = 2
    /\ \A e \in Instances(instance_list) : process_stop[e]

\* C15: at the step where SubProcess.run raises after Pipeline.run raised an
\* Exception, the exception is the RuntimeError that wraps it, every instance
\* has process_stop set, and no worker process is alive.
C15_NoWorkerAliveAtRuntimeError ==
    [][spc = "join" /\ spc' = "raised" =>
          /\ sexc' = "RuntimeError"
          /\ \A e \in Instances(instance_list') :
                process_stop'[e] /\ ~is_alive(process'[e])]_vars

\* C16: once SubProcess.__exit__ has ended, by its return or by an
\* exception, no region that was in the roster exists and the roster is
\* empty, whatever the body of the context did and whatever state the
\* workers were in.
C16_ExitUnlinksRoster ==
    ctx \in {"exited", "raised"} => shm_list = <<>> /\ shm = {}

\* C13: no in_queue ever holds more than queue_maxsize items; while the
\* host is blocked in in_queue.put on a full queue, no pad is invoked and the
\* scheduler stays where it is, and the put stays blocked until the worker
\* has taken an item from the queue.
C13_Backpressure ==
    /\ [](\A e \in SubProcessElements : Len(in_queue[e]) <= queue_maxsize)
    /\ [][pc = "await" /\ PutBlocks(node) =>
             /\ pc' = "await" /\ node' = node /\ task' = task
             /\ ncalls' = ncalls /\ input' = input /\ output' = output
             /\ \/ PutBlocks(node)'
                \/ /\ Len(in_queue'[element(node)]) < Len(in_queue[element(node)])
                   /\ wpc'[element(node)] # wpc[element(node)] \/ in_queue'[element(node)] = get(in_queue[element(node)])
                   /\ UNCHANGED <<super_vars, process_stop, process_shutdown>>]_vars

\* the host is blocked in the second put of a run, on the queue of a worker
\* that runs its loop
C13_Witness ==
    /\ pc = "await"
    /\ PutBlocks(node)
    /\ cycles = 2
    /\ node = <<"snk4", "sink", "H1">>
    /\ process[<<"snk4">>] = "started"
    /\ wpc[<<"snk4">>] = "while"
    /\ Len(in_queue[<<"snk4">>]) = queue_maxsize

\* C19: during a run, when the worker of a subprocess element has set
\* terminated while the element is not at EOS, the host is not left blocked
\* in a put on the queue of that element: the run is aborted by an error
\* instead of waiting for a worker that is gone.
C19_WorkerGoneIsFatal ==
    \A e \in SubProcessElements :
       spc = "try" /\ terminated[e] /\ ~at_eos(_at_eos, e) =>
          ~(pc = "await" /\ node \in Range(sink_pads[e]) /\ PutBlocks(node))

\* whether an item of a link_map names a registered sink pad and a
\* registered source pad
GoodEntry(reg, entry) ==
    /\ entry[1] \in DOMAIN reg /\ reg[entry[1]] \in SinkPad
    /\ entry[2] \in DOMAIN reg /\ reg[entry[2]] \in SourcePad

\* link_map items that link registered pads, to precede a failing item
FirstEntries == {<<"snk2:sink:H1", "trans1:src:H1">>, <<"snk1:sink:L1", "src1:src:H1">>}

\* C21: Pipeline.link fails on an item of link_map whose sink or source name
\* is not registered (KeyError) or resolves to something that is not a
\* SinkPad, or not a SourcePad (AssertionError), and the failing item changes
\* neither a linked source nor the graph: they are what the items before it
\* left; an item that names registered pads of the right kinds does not fail.
C21_LinkRejectsBadEntry ==
    pc = "idle" =>
       \A link_map \in LinkMaps :
          \E lk \in {[graph |-> graph, other |-> other, exc |-> "None"]} :
             /\ \E l \in {LinkLoop(_registry, lk, link_map)} :
                   IF GoodEntry(_registry, link_map[1])
                   THEN l.exc = "None"
                   ELSE /\ l.exc = IF link_map[1][1] \notin DOMAIN _registry
                                      \/ link_map[1][2] \notin DOMAIN _registry
                                   THEN "KeyError" ELSE "AssertionError"
                        /\ l.graph = graph
                        /\ l.other = other
             /\ \A first \in FirstEntries :
                   GoodEntry(_registry, first) /\ ~GoodEntry(_registry, link_map[1]) =>
                      \E l1 \in {LinkLoop(_registry, lk, <<first>>)},
                         l2 \in {LinkLoop(_registry, lk, <<first, link_map[1]>>)} :
                         /\ l1.exc = "None"
                         /\ l2.exc \in {"KeyError", "AssertionError"}
                         /\ l2.graph = l1.graph
                         /\ l2.other = l1.other

\* a call of link has failed on a name that is not registered, in a pipeline
\* that holds linked elements
C21_Witness ==
    /\ exc = "KeyError"
    /\ pc = "idle"
    /\ <<"snk2">> \in Inserted
    /\ other[<<"snk2", "sink", "H1">>] = <<"trans1", "src", "H1">>

\* C22: in a frame cycle a source pad writes its output at most once, and
\* exactly once by the end of the cycle; a sink pad that was executed in the
\* cycle holds the Frame its linked source pad wrote in this same cycle,
\* and no sink pad fails on an output that is unset.
C22_ReadsThisCyclesFrame ==
    /\ \A p \in SourcePad : ncalls[p] <= 1
    /\ pc = "while" /\ cycles > 0 =>
          \A p \in SourcePad \cap Nodes(graph) : ncalls[p] = 1
    /\ \A q \in SinkPad :
          ncalls[q] >= 1 =>
             /\ other[q] \in SourcePad
             /\ ncalls[other[q]] = 1
             /\ output[other[q]] # NoFrame
             /\ input[q] = output[other[q]]
    /\ pc \in {"callback", "wakeup"} /\ task.exception = "AssertionError" =>
          node \in SinkPad /\ other[node] \notin SourcePad

\* in the second frame cycle two sink pads have read the output of the one
\* source pad they are both linked to
C22_Witness ==
    /\ cycles = 2
    /\ \E q1, q2 \in SinkPad :
          /\ q1 # q2
          /\ other[q1] = other[q2]
          /\ ncalls[q1] = 1 /\ ncalls[q2] = 1
          /\ input[q1] = output[other[q1]]
          /\ input[q2] = input[q1]

\* C23: when __execute_graphs waits on a task, the task of every pad of the
\* ready set it took from the sorter has been created: no pad of the wave is
\* still to be started while the scheduler waits.
C23_WaveInFlightTogether ==
    pc = "await" => ready = {}

\* C24 as stated: the Frame a source pad has produced stays as the source
\* pad left it, with the metadata the source pad gave it, whatever sink
\* pads have consumed it.
C24_SinkLeavesFrameUnchanged ==
    \A p \in SourcePad :
       output[p] # NoFrame =>
          frames[output[p]].__graph__ = "-> " \o PadName(p) \o " "

\* C24: executing a sink pad leaves the EOS flag and the other metadata of
\* the Frame it reads, and every other Frame, unchanged, and appends
\* "-> <name of the sink pad> " to metadata["__graph__"] of the Frame it
\* reads, which is the object the source pad holds as its output.
C24_SinkAppendsGraphOnly ==
    [][pc = "await" /\ pc' = "callback" /\ node \in SinkPad /\ ncalls'[node] > ncalls[node] =>
          /\ input'[node] = output[other[node]]
          /\ output' = output
          /\ frames'[input'[node]].EOS = frames[input'[node]].EOS
          /\ frames'[input'[node]].name = frames[input'[node]].name
          /\ frames'[input'[node]].__graph__
                = frames[input'[node]].__graph__ \o "-> " \o PadName(node) \o " "
          /\ \A j \in DOMAIN frames' \ {input'[node]} :
                j \in DOMAIN frames /\ frames'[j] = frames[j]]_vars

\* two sink pads linked to one source pad have run: the Frame the source
\* pad holds records both, in the order they ran
C24_Witness ==
    \E q1, q2 \in SinkPad :
       /\ q1 # q2
       /\ other[q1] \in SourcePad
       /\ other[q2] = other[q1]
       /\ output[other[q1]] # NoFrame
       /\ frames[output[other[q1]]].__graph__
             = "-> " \o PadName(other[q1]) \o " -> " \o PadName(q1) \o " -> "
               \o PadName(q2) \o " "

\* C25: a sink pad is linked to at most one source pad; an unlinked sink pad
\* has no entry in the pipeline graph and a linked one has exactly the set
\* of its currently linked source pad as its dependencies; a step that
\* links a sink pad anew replaces the back-pointer and the graph edge of
\* this sink pad and leaves the other sink pads linked as they were, so a
\* source pad can be the target of several sink pads.
C25_OneSourcePerSinkPad ==
    /\ [](\A q \in SinkPad :
            /\ other[q] = None => q \notin DOMAIN graph
            /\ other[q] # None =>
                  /\ other[q] \in SourcePad
                  /\ q \in DOMAIN graph
                  /\ graph[q] = {other[q]})
    /\ [][\A q \in SinkPad :
            other'[q] # other[q] =>
               /\ graph'[q] = {other'[q]}
               /\ \A r \in SinkPad \ {q} :
                     /\ other'[r] = other[r]
                     /\ r \in DOMAIN graph => r \in DOMAIN graph' /\ graph'[r] = graph[r]]_vars

\* three sink pads are linked to the one source pad of src1, and each has
\* this source pad as its only dependency
C25_Witness ==
    /\ pc = "idle"
    /\ Cardinality({q \in SinkPad : other[q] = <<"e1", "src", "H1">>
                                    /\ q \in DOMAIN graph
                                    /\ graph[q] = {<<"e1", "src", "H1">>}}) >= 3

\* C26: while sub_process_shutdown waits, process_shutdown is set; it sets
\* process_stop only in a pass of its loop that has found terminated set,
\* and in the same pass, in this order, it has collected every item of
\* out_queue, has set process_stop and has released the queues; the list it
\* returns is the items out_queue held, first in first; a call that ends
\* otherwise has raised RuntimeError without having found terminated set
\* and without having set process_stop or having released the queues.
C26_ShutdownOrder ==
    /\ [](sd.state = "waiting" => process_shutdown[sd.element])
    /\ [][sd.state = "waiting" =>
            /\ (process_stop'[sd.element] # process_stop[sd.element]
                  \/ released'[sd.element] # released[sd.element]) =>
                  terminated[sd.element] /\ sd'.state = "none" /\ sexc' = sexc
            /\ sd'.state # "waiting" =>
                  \/ /\ terminated[sd.element]
                     /\ sd'.out = out_queue[sd.element]
                     /\ out_queue'[sd.element] = <<>>
                     /\ process_stop'[sd.element]
                     /\ released'[sd.element]
                     /\ sexc' = sexc
                  \/ /\ ~terminated[sd.element]
                     /\ sexc' = "RuntimeError"
                     /\ sd'.out = <<>>
                     /\ UNCHANGED <<process_stop, released, out_queue>>]_vars

\* sub_process_shutdown has returned the two frames the worker had put into
\* out_queue, in the order the worker had put them
C26_Witness ==
    /\ sd.state = "none"
    /\ Len(sd.out) = 2
    /\ sd.out[1].name = "Test Item 0"
    /\ sd.out[2].name = "Test Item 1"
    /\ process_stop[<<"snk5">>]
    /\ released[<<"snk5">>]
    /\ sexc = "None"

\* C27: a worker that is in the drain loop has not yet observed in_queue
\* empty on three consecutive polls: the third such poll makes it leave the
\* loop (tries counts the consecutive polls that found the queue empty, and
\* a poll that finds an item resets it to zero).
C27_LeavesAfterThreeEmptyPolls ==
    \A e \in SubProcessElements :
       process[e] = "started" /\ wpc[e] = "drain" => tries[e] < 3

C29_StopIsHardStop ==
    [][\A e \in SubProcessElements :
          process[e] = "started" /\ process_stop[e] /\ Len(in_queue'[e]) < Len(in_queue[e]) =>
             wpc'[e] = "end" /\ in_queue'[e] = <<>>]_vars

\* C30: a worker that is at the first loop of the wrapper with process_stop
\* set, as it is when process_stop was set before the wrapper began, with
\* process_shutdown set or not, takes one step only: it makes no call of
\* sub_process_internal, it sets terminated, and it empties and closes both
\* queues and ends without entering drain mode and without waiting for
\* process_stop.
C30_StopSetAtBegin ==
    [][\A e \in SubProcessElements :
          /\ process[e] = "started" /\ wpc[e] = "while" /\ process_stop[e]
          /\ \/ wpc'[e] # wpc[e]
             \/ terminated'[e] # terminated[e]
             \/ tries'[e] # tries[e]
             \/ Len(in_queue'[e]) < Len(in_queue[e])
             \/ Len(out_queue'[e]) > Len(out_queue[e])
          => /\ terminated'[e]
             /\ wpc'[e] = "end"
             /\ process'[e] = "stopped"
             /\ in_queue'[e] = <<>>
             /\ out_queue'[e] = <<>>
             /\ tries'[e] = 0]_vars

\* the caller had set both events before the wrapper began: the worker has
\* ended with terminated set and both queues empty
C30_Witness ==
    /\ sd = NoShutdown
    /\ process_shutdown[<<"snk5">>]
    /\ process_stop[<<"snk5">>]
    /\ terminated[<<"snk5">>]
    /\ wpc[<<"snk5">>] = "end"
    /\ process[<<"snk5">>] = "stopped"
    /\ in_queue[<<"snk5">>] = <<>>
    /\ out_queue[<<"snk5">>] = <<>>

\* C31: a worker that leaves its processing loops, through an Exception of
\* sub_process_internal as through the events, sets terminated in the same
\* step and goes on to the wait for process_stop or to _drainqs: the
\* Exception stays inside the wrapper. A call that raised in the first loop
\* with neither event set ends the worker through _drainqs. Once terminated
\* is set the worker is outside its loops and makes no further call: an
\* item leaves in_queue only by being discarded with the others.
C31_ExceptionEndsLoop ==
    /\ [](\A e \in SubProcessElements :
            terminated[e] /\ process[e] = "started" => wpc[e] \in {"wait_stop", "end"})
    /\ [][\A e \in SubProcessElements :
            /\ process[e] = "started" /\ wpc[e] \in {"while", "drain"}
                  /\ wpc'[e] \in {"wait_stop", "end"} =>
                  /\ terminated'[e]
                  /\ wpc'[e] = "wait_stop" <=> process_shutdown[e] /\ ~process_stop[e]
                  /\ wpc'[e] = "end" => process'[e] = "stopped" /\ in_queue'[e] = <<>>
                                         /\ out_queue'[e] = <<>>
            /\ terminated[e] /\ Len(in_queue'[e]) < Len(in_queue[e]) =>
                  wpc'[e] = "end" /\ in_queue'[e] = <<>>]_vars

\* a call of sub_process_internal has raised in the first loop, with
\* neither event set: terminated is set and the worker has ended
C31_Witness ==
    /\ terminated[<<"snk5">>]
    /\ ~process_shutdown[<<"snk5">>]
    /\ ~process_stop[<<"snk5">>]
    /\ wpc[<<"snk5">>] = "end"
    /\ process[<<"snk5">>] = "stopped"

\* C32: a KeyboardInterrupt raised inside sub_process_internal never ends
\* the worker: a worker whose process has ended has left through the end of
\* the wrapper, with terminated set.
C32_KeyboardInterruptIgnored ==
    \A e \in SubProcessElements :
       process[e] = "stopped" => terminated[e] /\ wpc[e] = "end"

\* C33: after SubProcess.__exit__ has completed no worker is alive,
\* instance_list is empty and multiprocess_enabled is False.
C33_ExitLeavesNoWorkerAlive ==
    ctx = "exited" =>
       /\ \A e \in SubProcessElements : ~is_alive(process[e])
       /\ instance_list = <<>>
       /\ ~multiprocess_enabled

\* C34: a task is pending only while __execute_graphs is suspended in
\* "await task", so at most one pad is being invoked; every step that
\* changes the state of the pads is either the reset at the start of a frame
\* cycle or the whole invocation of the one pad of that task, from its start
\* to its completion: no callback of another pad executes in it, and the
\* output, the input and the counter of every other pad are as they were.
C34_PadsNeverInterleave ==
    /\ [](task.state = "pending" => pc = "await" /\ node \in Pad)
    /\ [][pad_vars' # pad_vars =>
            \/ /\ pc = "while"
               /\ UNCHANGED <<output, input, frames, cnt, inbuf, _at_eos>>
            \/ /\ pc = "await" /\ task.state = "pending"
               /\ pc' = "callback" /\ task'.state = "done" /\ node' = node
               /\ \A p \in Pad \ {node} : ncalls'[p] = ncalls[p]
               /\ ncalls'[node] \in {ncalls[node], ncalls[node] + 1}
               /\ \A p \in SourcePad \ {node} : output'[p] = output[p] /\ cnt'[p] = cnt[p]
               /\ \A q \in SinkPad \ {node} : input'[q] = input[q]]_vars

\* a pad of a wave has been invoked and has completed while another pad of
\* the same wave has not been started
C34_Witness ==
    /\ pc = "callback"
    /\ ready # {}
    /\ ncalls[node] = 1
    /\ \A p \in ready : ncalls[p] = 0
    /\ cycles = 2

\* C35: a call of run that finds no SinkElement in the pipeline, or every
\* SinkElement with a sink pad flagged EOS, returns from the first test of
\* the loop condition: no pad is invoked, no sorter is built and no frame
\* cycle is counted, and the state of the pads is as the call found it.
C35_RunReturnsAtOnce ==
    /\ [](pc = "returned" /\ cycles = 0 => ts = NoSorter /\ task = NoTask /\ done_nodes = <<>>)
    /\ [][/\ pc = "while" /\ cycles = 0
          /\ \A n \in DOMAIN sinks : \E pad \in Range(sink_pads[sinks[n]]) : _at_eos[pad]
          => /\ pc' = "returned"
             /\ exc' = "None"
             /\ UNCHANGED <<pad_vars, loop_vars, cycles, pipeline_vars>>]_vars

\* the second call of run on a pipeline with a sink element has returned
\* without a frame cycle, after the first had run the pads to EOS
C35_Witness ==
    /\ pc = "returned"
    /\ runs = 2
    /\ cycles = 0
    /\ DOMAIN sinks # {}
    /\ \E q \in SinkPad : ncalls[q] = 1 /\ input[q] # NoFrame

\* C36 as stated: while the pipeline is assembled, a call of Pipeline.insert
\* that fails leaves the registry, the graph and the sink table as the call
\* found them.
C36_FailedInsertLeavesNoTrace ==
    pc = "idle" =>
       \A call \in InsertCalls :
          \E r \in {InsertLoop([_registry |-> _registry, graph |-> graph, sinks |-> sinks,
                                exc |-> "None"], call.elements)} :
             r.exc # "None" =>
                r._registry = _registry /\ r.graph = graph /\ r.sinks = sinks

\* C36: a call of Pipeline.insert that fails on its i-th argument keeps
\* what it did before the failure: every earlier element of the call stays
\* registered with all its pads, its graph edges and its sink table entry;
\* the rejected argument adds nothing to the graph and to the sink table,
\* and to the registry at most its element name and names of its pads; the
\* names registered before the call keep their objects and the pads of the
\* graph their dependencies.
C36_FailedInsertKeepsEarlier ==
    pc = "idle" =>
       \A call \in InsertCalls :
          \E r \in {InsertLoop([_registry |-> _registry, graph |-> graph, sinks |-> sinks,
                                exc |-> "None"], call.elements)} :
             r.exc # "None" =>
                \E i \in DOMAIN call.elements :
                   /\ \A j \in 1..(i - 1) :
                         /\ call.elements[j] \in Elements
                         /\ NamesOf(call.elements[j]) \subseteq DOMAIN r._registry
                         /\ r._registry[name[call.elements[j]]] = call.elements[j]
                   /\ DOMAIN r._registry \subseteq
                         DOMAIN _registry
                         \cup UNION {NamesOf(call.elements[j]) : j \in 1..(i - 1)}
                         \cup (IF call.elements[i] \in Elements
                               THEN NamesOf(call.elements[i]) ELSE {})
                   /\ DOMAIN r.graph =
                         DOMAIN graph
                         \cup UNION {DOMAIN ElementGraph(call.elements[j]) : j \in 1..(i - 1)}
                   /\ DOMAIN r.sinks =
                         DOMAIN sinks
                         \cup {name[call.elements[j]] : j \in {k \in 1..(i - 1) :
                                                               call.elements[k] \in SinkElements}}
                   /\ \A n \in DOMAIN _registry : r._registry[n] = _registry[n]
                   /\ \A p \in DOMAIN graph : r.graph[p] = graph[p]

\* insert(snk1, None) has failed on its second argument: snk1 is registered
\* with its pads and is in the sink table
C36_Witness ==
    /\ pc = "idle"
    /\ runs = 0
    /\ exc = "AssertionError"
    /\ Registered(_registry) = {<<"snk1">>}
    /\ Inserted = {<<"snk1">>}
    /\ DOMAIN sinks = {"snk1"}

\* C37: the host never waits in sub_process_shutdown with timeout 0 for a
\* worker that is blocked in out_queue.put on a full out_queue: nobody takes
\* an item from out_queue before terminated is set, so such a wait would
\* never end.
C37_ShutdownNeverStuck ==
    ~(/\ sd.state = "waiting"
      /\ sd.timeout = 0
      /\ process[sd.element] = "started"
      /\ wpc[sd.element] = "drain"
      /\ ~terminated[sd.element]
      /\ ~process_stop[sd.element]
      /\ in_queue[sd.element] # <<>>
      /\ Len(out_queue[sd.element]) >= Capacity(sd.element))

\* C38 as stated: a worker that sets terminated runs _drainqs, which discards
\* the items of out_queue and closes it, only when process_stop is set.
C38_OutQueueKeptUntilStop ==
    [][\A e \in SubProcessElements :
          terminated'[e] /\ wpc[e] # "end" /\ wpc'[e] = "end" => process_stop[e]]_vars

\* C38: a worker that sets terminated while process_shutdown is set and
\* process_stop is not leaves out_queue as it is and waits for process_stop,
\* whether the drain loop ended or sub_process_internal raised in it; once
\* terminated is set, out_queue changes only when process_stop is set or when
\* sub_process_shutdown hands all its items to the host. A worker that ends
\* while neither event is set (sub_process_internal raised in the first loop)
\* discards out_queue at once.
C38_OutQueueKeptUnderShutdown ==
    [][\A e \in SubProcessElements :
          /\ ~terminated[e] /\ terminated'[e] /\ process_shutdown[e] /\ ~process_stop[e]
                => wpc'[e] = "wait_stop" /\ out_queue'[e] = out_queue[e]
          /\ ~terminated[e] /\ terminated'[e] /\ ~(process_shutdown[e] /\ ~process_stop[e])
                => wpc'[e] = "end" /\ out_queue'[e] = <<>>
          /\ terminated[e] /\ out_queue'[e] # out_queue[e]
                => \/ process_stop[e]
                   \/ /\ sd.element = e
                      /\ sd'.out = out_queue[e]
                      /\ process_stop'[e]]_vars

\* the worker has set terminated after sub_process_internal raised in drain
\* mode: an item is left in in_queue, the earlier item is still in out_queue
\* and the worker waits for process_stop
C38_Witness ==
    /\ terminated[<<"snk5">>]
    /\ wpc[<<"snk5">>] = "wait_stop"
    /\ process_shutdown[<<"snk5">>]
    /\ ~process_stop[<<"snk5">>]
    /\ in_queue[<<"snk5">>] # <<>>
    /\ out_queue[<<"snk5">>] = <<EarlierItem>>

\* C39 as stated: a call of to_shm that fails because the name exists leaves
\* the roster and the shared-memory regions as they were.
C39_FailedToShmKeepsEarlier ==
    [][\A n \in ShmNames :
          Exists(n) /\ to_shm(n) => shm_list' = shm_list /\ shm' = shm]_vars

\* C39: a call of to_shm that fails because the name exists raises
\* FileExistsError, unlinks the region of every entry of the roster and
\* leaves the roster empty; only the regions that the roster did not hold
\* remain.
C39_FailedToShmClearsRoster ==
    [][\A n \in ShmNames :
          Exists(n) /\ to_shm(n) =>
             /\ sexc' = "FileExistsError"
             /\ shm_list' = <<>>
             /\ shm' = shm \ Range(shm_list)
             /\ \A m \in Range(shm_list) : ~Exists(m)']_vars

\* a call of to_shm outside the context has failed on an existing name: the
\* roster is empty and no region is left
C39_Witness ==
    /\ sexc = "FileExistsError"
    /\ shm_list = <<>>
    /\ shm = {}
    /\ ctx = "outside"
    /\ spc = "idle"

\* C40: done_nodes.get() is reached only when it can return at once: the
\* callback of the last pad of the wave has called ts.done(node) and has put
\* the pad at the end of done_nodes; and whenever __execute_graphs is at
\* done_nodes.get() or at the next ts.is_active() and ts.get_ready(),
\* ts.done has been called for every pad that get_ready() has handed out.
C40_GetNeverBlocks ==
    /\ [](pc = "get" =>
             /\ done_nodes # <<>>
             /\ done_nodes[Len(done_nodes)] = node
             /\ node \in ts.finished
             /\ ready = {})
    /\ [](pc \in {"get", "is_active"} => ts.finished = ts.passedout)
    /\ [][pc = "get" /\ pc' # pc => pc' = "is_active" /\ done_nodes' = Tail(done_nodes)]_vars

\* __execute_graphs is at done_nodes.get() after a wave of the second frame
\* cycle: the queue holds the pads of two waves and every pad handed out is
\* done
C40_Witness ==
    /\ pc = "get"
    /\ cycles = 2
    /\ Len(done_nodes) >= 2
    /\ Cardinality(ts.passedout) >= 2
    /\ ts.finished = ts.passedout

=============================================================================
